---------------------------- MODULE Spec2Model ----------------------------
(***************************************************************************)
(* Term-AI-nal: the terminal session multiplexer.                          *)
(*                                                                         *)
(* Renderer (src/src/renderer/App.tsx, TerminalPane in                     *)
(* src/src/renderer/Help.tsx:136-341): the layout tree, the active pane,   *)
(* the tracked terminal list, the command review state and the store of    *)
(* terminal surfaces.                                                      *)
(* Main process (src/unnamed/part_003): the pty table, the set of          *)
(* intentionally closed terminals and the IPC handlers.                    *)
(* The two sides talk over two ordered IPC channels (preload,              *)
(* src/unnamed/part_001:85-121).                                           *)
(***************************************************************************)
EXTENDS Integers, Sequences, FiniteSets, TLC

VARIABLES
    layout,           \* App.tsx:68  the layout tree (root group)
    activePaneId,     \* App.tsx:75
    terminals,        \* App.tsx:76  tracked terminal ids (a list)
    nextPaneNumber,   \* App.tsx:77
    showAiBar,        \* App.tsx:82
    pendingCommand,   \* App.tsx:84  Null or the command under review
    isProcessing,     \* App.tsx:86  a translation request is in flight
    globalTerminals,  \* Help.tsx:149 ids that own a terminal surface
    clock,            \* Date.now()
    toMain,           \* renderer -> main IPC messages, in order
    toRenderer,       \* main -> renderer IPC messages, in order
    mainWindow,       \* part_003:290 TRUE while the window exists
    ptyProcesses,     \* part_003:291 live table: id -> process
    closingTerminals, \* part_003:292 ids being intentionally closed
    procs,            \* every process spawned so far, by pid
    splitCount,       \* number of splitPane invocations so far
    lastCall,         \* the registry call handled last (SpecRegistry only)
    resizeTimeout,    \* Help.tsx:216 panes whose debounce timer is pending
    layoutTimeouts,   \* App.tsx:200,234 pending 'terminal-layout-change' timers
    windowTimeout,    \* App.tsx:96 TRUE while the window-resize timer is pending
    rafs,             \* per pane: measure-and-resize callbacks awaiting frames
    burst,            \* the triggers and resize calls since the coordinator
                      \* was last idle (SpecResize only)
    sizing,           \* per pane: the initial-sizing timer and the
                      \* attemptResize chains in progress (SpecSizing only)
    retiredNumbers,   \* history: the display numbers of the panes that
                      \* were removed from the tree
    stage,            \* per pane: the measure-and-resize callbacks by the
                      \* number of frame boundaries they have seen
                      \* (SpecFrames only)
    emitted,          \* per session id: the number of chunks its processes
                      \* have produced (SpecOutput only)
    written           \* per session id: the chunks written to its surface,
                      \* in order (SpecOutput only)

vars == <<layout, activePaneId, terminals, nextPaneNumber, showAiBar,
          pendingCommand, isProcessing, globalTerminals, clock, toMain,
          toRenderer, mainWindow, ptyProcesses, closingTerminals, procs,
          splitCount, lastCall, resizeTimeout, layoutTimeouts, windowTimeout,
          rafs, burst, sizing, retiredNumbers, stage, emitted, written>>

paneVars == <<stage, emitted, written>>

resizeVars == <<resizeTimeout, layoutTimeouts, windowTimeout, rafs, burst,
                sizing, paneVars>>

rendererVars == <<layout, activePaneId, terminals, nextPaneNumber, showAiBar,
                  pendingCommand, isProcessing, globalTerminals, clock,
                  splitCount, resizeVars, retiredNumbers>>

appVars == <<layout, activePaneId, terminals, nextPaneNumber, globalTerminals,
             retiredNumbers>>

aiVars == <<showAiBar, pendingCommand, isProcessing>>

mainVars == <<mainWindow, ptyProcesses, closingTerminals, procs>>

-----------------------------------------------------------------------------
(* Bounds of the model *)

MaxSplits == 2      \* splitPane invocations explored
MaxClock == 3       \* last clock reading explored
MaxQueue == 2       \* messages held by one IPC channel
MaxProcs == 2       \* processes spawned under SpecRegistry
MaxFrames == 2      \* measure-and-resize callbacks one pane has pending
MaxTimeouts == 1    \* pending 'terminal-layout-change' timers
MaxCalls == 2       \* resize calls counted per pane and burst
MaxChunks == 2      \* chunks of output of one session
MaxUnsized == 1     \* attempts of an initial sizing that measure no grid
                    \* under SpecFrames

(* Program constants *)

FirstPane == 1      \* 'term-1'
FirstNumber == 1    \* paneNumber of the first pane
DefaultCols == 80
DefaultRows == 30
MaxDigit == 9       \* Cmd+1 .. Cmd+9

T0 == 2             \* first clock reading; Date.now() never yields 'term-1'

Home == "home"              \* process.env.HOME
Undefined == "undefined"    \* an absent cwd
Dirs == {Home, "work"}
Null == "null"              \* pendingCommand === null
PaneIds == {FirstPane} \cup T0..MaxClock   \* 'term-1', `term-${Date.now()}`
Directions == {"horizontal", "vertical"}
Positions == {"before", "after"}

-----------------------------------------------------------------------------
(* Layout tree: type LayoutNode *)

RootId == <<"root", 0>>

PaneNode(nodeId, paneId, cwd, paneNumber) ==
    [type |-> "pane", id |-> nodeId, direction |-> "none", children |-> <<>>,
     paneId |-> paneId, cwd |-> cwd, paneNumber |-> paneNumber]

GroupNode(nodeId, direction, children) ==
    [type |-> "group", id |-> nodeId, direction |-> direction,
     children |-> children, paneId |-> 0, cwd |-> Undefined, paneNumber |-> 0]

NullNode ==
    [type |-> "null", id |-> <<"null", 0>>, direction |-> "none",
     children |-> <<>>, paneId |-> 0, cwd |-> Undefined, paneNumber |-> 0]

InitialLayout ==
    GroupNode(RootId, "horizontal",
              <<PaneNode(<<"node", 1>>, FirstPane, Undefined, FirstNumber)>>)

RECURSIVE Leaves(_)
(* the pane nodes of a tree, in depth-first order *)
Leaves(node) ==
    IF node.type = "pane" THEN <<node>>
    ELSE IF node.type = "null" THEN <<>>
    ELSE LET RECURSIVE cat(_)
             cat(i) == IF i > Len(node.children) THEN <<>>
                       ELSE Leaves(node.children[i]) \o cat(i + 1)
         IN cat(1)

PaneIdsOf(node) == {Leaves(node)[i].paneId : i \in 1..Len(Leaves(node))}

RECURSIVE HasPane(_, _)
HasPane(node, paneId) ==
    IF node.type = "pane" THEN node.paneId = paneId
    ELSE \E i \in 1..Len(node.children) : HasPane(node.children[i], paneId)

(* findNodeByPaneId: the first match in depth-first order, as the path of
   child indexes from the root; <<>> when there is none or when the match
   is the root itself (parent === null). *)
RECURSIVE findNodeByPaneId(_, _)
findNodeByPaneId(root, paneId) ==
    IF root.type = "pane" \/ ~HasPane(root, paneId) THEN <<>>
    ELSE LET i == CHOOSE j \in 1..Len(root.children) :
                    /\ HasPane(root.children[j], paneId)
                    /\ \A k \in 1..(j - 1) : ~HasPane(root.children[k], paneId)
         IN <<i>> \o findNodeByPaneId(root.children[i], paneId)

(* a lookup that falls back to the first pane when no pane has the number *)
findPaneIdByNumber_orFirst(root, paneNumber) ==
    LET leaves == Leaves(root)
        hits == {i \in 1..Len(leaves) : leaves[i].paneNumber = paneNumber}
    IN IF hits = {} THEN leaves[1].paneId
       ELSE leaves[CHOOSE i \in hits : \A j \in hits : i <= j].paneId

RECURSIVE findPaneIdByNumber(_, _)
(* 0 stands for null *)
findPaneIdByNumber(root, paneNumber) ==
    IF root.type = "pane"
    THEN IF root.paneNumber = paneNumber THEN root.paneId ELSE 0
    ELSE LET RECURSIVE scan(_)
             scan(i) ==
                 IF i > Len(root.children) THEN 0
                 ELSE LET r == findPaneIdByNumber(root.children[i], paneNumber)
                      IN IF r # 0 THEN r ELSE scan(i + 1)
         IN scan(1)

(* splice(i, 1, e) in place of splice(i, 0, e): the element at i is lost *)
InsertAt_overwrite(s, i, e) ==
    SubSeq(s, 1, i - 1) \o <<e>> \o SubSeq(s, i + 1, Len(s))

InsertAt(s, i, e) == SubSeq(s, 1, i - 1) \o <<e>> \o SubSeq(s, i, Len(s))

RECURSIVE splitAt_ignoresPosition(_, _, _, _, _, _)
(* the updater with index + 1 and [node, newPaneNode] whatever the position *)
splitAt_ignoresPosition(node, path, direction, position, newPaneNode, now) ==
    LET i == Head(path) IN
    IF Len(path) > 1
    THEN [node EXCEPT !.children[i] =
             splitAt_ignoresPosition(node.children[i], Tail(path), direction,
                                     position, newPaneNode, now)]
    ELSE IF node.direction = direction
         THEN [node EXCEPT !.children =
                  InsertAt(node.children, i + 1, newPaneNode)]
         ELSE [node EXCEPT !.children[i] =
                  GroupNode(<<"group", now>>, direction,
                            <<node.children[i], newPaneNode>>)]

(* the setLayout updater of splitPane, applied along the path to the target *)
RECURSIVE splitAt(_, _, _, _, _, _)
splitAt(node, path, direction, position, newPaneNode, now) ==
    LET i == Head(path) IN
    IF Len(path) > 1
    THEN [node EXCEPT !.children[i] =
             splitAt(node.children[i], Tail(path), direction, position,
                     newPaneNode, now)]
    ELSE IF node.direction = direction
         THEN [node EXCEPT !.children =
                  InsertAt(node.children,
                           IF position = "after" THEN i + 1 ELSE i,
                           newPaneNode)]
         ELSE [node EXCEPT !.children[i] =
                  GroupNode(<<"group", now>>, direction,
                            IF position = "after"
                            THEN <<node.children[i], newPaneNode>>
                            ELSE <<newPaneNode, node.children[i]>>)]

splitLayout(prevLayout, target, direction, position, newPaneNode, now) ==
    LET path == findNodeByPaneId(prevLayout, target) IN
    IF path = <<>> THEN prevLayout
    ELSE splitAt(prevLayout, path, direction, position, newPaneNode, now)

RECURSIVE removeByPaneId_hoistRoot(_, _)
(* the removal without `node.id !== 'root'`: the root is hoisted away too *)
removeByPaneId_hoistRoot(node, targetPaneId) ==
    IF node.type = "pane"
    THEN IF node.paneId = targetPaneId THEN NullNode ELSE node
    ELSE LET mapped == [i \in 1..Len(node.children) |->
                            removeByPaneId_hoistRoot(node.children[i],
                                                     targetPaneId)]
             newChildren == SelectSeq(mapped, LAMBDA n : n.type # "null")
         IN IF Len(newChildren) = 0 THEN NullNode
            ELSE IF Len(newChildren) = 1 THEN newChildren[1]
                 ELSE [node EXCEPT !.children = newChildren]

RECURSIVE removeByPaneId_noHoist(_, _)
(* the removal without the hoist of a sole remaining child *)
removeByPaneId_noHoist(node, targetPaneId) ==
    IF node.type = "pane"
    THEN IF node.paneId = targetPaneId THEN NullNode ELSE node
    ELSE LET mapped == [i \in 1..Len(node.children) |->
                            removeByPaneId_noHoist(node.children[i],
                                                   targetPaneId)]
             newChildren == SelectSeq(mapped, LAMBDA n : n.type # "null")
         IN IF Len(newChildren) = 0 THEN NullNode
            ELSE [node EXCEPT !.children = newChildren]

RECURSIVE removeByPaneId(_, _)
removeByPaneId(node, targetPaneId) ==
    IF node.type = "pane"
    THEN IF node.paneId = targetPaneId THEN NullNode ELSE node
    ELSE LET mapped == [i \in 1..Len(node.children) |->
                            removeByPaneId(node.children[i], targetPaneId)]
             newChildren == SelectSeq(mapped, LAMBDA n : n.type # "null")
         IN IF Len(newChildren) = 0 THEN NullNode
            ELSE IF Len(newChildren) = 1 /\ node.id # RootId
                 THEN newChildren[1]
                 ELSE [node EXCEPT !.children = newChildren]

(* the updater without its fallback to prevLayout *)
removeFromLayout_nofallback(prevLayout, targetPaneId) ==
    removeByPaneId(prevLayout, targetPaneId)

(* result || prevLayout *)
removeFromLayout(prevLayout, targetPaneId) ==
    LET result == removeByPaneId(prevLayout, targetPaneId)
    IN IF result.type = "null" THEN prevLayout ELSE result

Filter(s, x) == SelectSeq(s, LAMBDA t : t # x)


-----------------------------------------------------------------------------
(* IPC messages (preload: src/unnamed/part_001:87-121) *)

NoK == [newPaneId |-> 0, paneNumber |-> 0, target |-> 0,
        direction |-> "none", position |-> "none"]

NoData == [text |-> "", nl |-> FALSE]
KeyData == [text |-> "x", nl |-> FALSE]        \* a keystroke typed in a pane
CommandLine(cmd) == [text |-> cmd, nl |-> TRUE] \* pendingCommand + '\n'

Msg(type, id, cwd, data, cols, rows, k) ==
    [type |-> type, id |-> id, cwd |-> cwd, data |-> data,
     cols |-> cols, rows |-> rows, k |-> k]

createTerminal(id, cwd) == Msg("terminal-create", id, cwd, NoData, 0, 0, NoK)
getTerminalCwd(id, k) == Msg("terminal-get-cwd", id, Undefined, NoData, 0, 0, k)
sendTerminalInput(id, data) == Msg("terminal-input", id, Undefined, data, 0, 0, NoK)
resizeTerminal(id, cols, rows) ==
    Msg("terminal-resize", id, Undefined, NoData, cols, rows, NoK)
closeTerminal(id) == Msg("terminal-close", id, Undefined, NoData, 0, 0, NoK)

TerminalExit(id) == Msg("terminal-exit", id, Undefined, NoData, 0, 0, NoK)
CwdReply(cwd, k) == Msg("cwd-reply", 0, cwd, NoData, 0, 0, k)

Call(op, id) == [op |-> op, id |-> id]

-----------------------------------------------------------------------------
(* Main process: the pty table (src/unnamed/part_003:289-384) *)

Live(id) == id \in DOMAIN ptyProcesses

(* a spawn that ignores the requested directory *)
spawn_home(id, cwd) ==
    [id |-> id, cwd |-> Home, dir |-> Home,
     cols |-> DefaultCols, rows |-> DefaultRows,
     state |-> "running", killed |-> FALSE, inputs |-> {}, notes |-> 0]

(* pty.spawn(shell, ['--login'], {cols: 80, rows: 30, cwd: cwd || HOME}) *)
spawn(id, cwd) ==
    [id |-> id, cwd |-> IF cwd = Undefined THEN Home ELSE cwd,
     dir |-> IF cwd = Undefined THEN Home ELSE cwd,
     cols |-> DefaultCols, rows |-> DefaultRows,
     state |-> "running", killed |-> FALSE, inputs |-> {}, notes |-> 0]

(* createPty without its ptyProcesses.has(id) guard *)
createPtySpawns_always(id) == TRUE

(* createPty: an id that is live keeps its process *)
createPtySpawns(id) == ~Live(id)

TableWithout(id) == [j \in DOMAIN ptyProcesses \ {id} |-> ptyProcesses[j]]

(* ipcMain.on('terminal-create') -> createPty(id, cwd) *)
terminalCreate(m) ==
    /\ IF createPtySpawns(m.id)
       THEN /\ procs' = Append(procs, spawn(m.id, m.cwd))
            /\ ptyProcesses' = [j \in DOMAIN ptyProcesses \cup {m.id} |->
                                   IF j = m.id THEN Len(procs) + 1
                                   ELSE ptyProcesses[j]]
       ELSE UNCHANGED <<procs, ptyProcesses>>
    /\ UNCHANGED <<mainWindow, closingTerminals, toRenderer>>

(* ipcMain.on('terminal-create') -> createPty(id, cwd) when pty.spawn throws:
   the exception leaves createPty and the handler, which have no try/catch,
   before ptyProcesses.set and before any callback is registered *)
terminalCreateThrows(m) ==
    /\ createPtySpawns(m.id)
    /\ UNCHANGED <<mainWindow, ptyProcesses, closingTerminals, procs,
                   toRenderer>>

(* getCwd(pid): the directory of a running process when the probe works,
   HOME on any failure *)
getCwd(pid) ==
    IF procs[pid].state = "running" THEN {procs[pid].dir, Home} ELSE {Home}

Platforms == {"darwin", "linux", "win32"}     \* os.platform()

(* how the probe of a platform can end: lsof prints the directory, prints
   nothing that matches /n(.+)/, or fails; readlinkSync returns or throws;
   no probe exists for other platforms *)
Probes(platform) ==
    IF platform = "darwin" THEN {"ok", "nomatch", "throws"}
    ELSE IF platform = "linux" THEN {"ok", "throws"}
    ELSE {"none"}

(* a getCwd without its last return *)
getCwdOn_noFallback(platform, probe, pid) ==
    IF platform \in {"darwin", "linux"} /\ probe = "ok" THEN procs[pid].dir
    ELSE IF platform = "darwin" /\ probe = "nomatch" THEN Home
    ELSE Undefined

(* getCwd(pid) by platform and outcome of the probe; Home stands for
   process.env.HOME || '/' *)
getCwdOn(platform, probe, pid) ==
    IF platform = "darwin"
    THEN IF probe = "ok" THEN procs[pid].dir
         ELSE Home          \* no match, or the catch and the last return
    ELSE IF platform = "linux"
    THEN IF probe = "ok" THEN procs[pid].dir
         ELSE Home          \* the catch and the last return
    ELSE Home               \* the last return

(* ipcMain.handle('terminal-get-cwd') on a platform, with the outcome of the
   probe; only the directory of a running process can be probed *)
terminalGetCwdOn(m, platform, probe) ==
    /\ probe = "ok" => Live(m.id) /\ procs[ptyProcesses[m.id]].state = "running"
    /\ toRenderer' = Append(toRenderer,
          CwdReply(IF Live(m.id)
                   THEN getCwdOn(platform, probe, ptyProcesses[m.id])
                   ELSE Home, m.k))
    /\ UNCHANGED mainVars

(* ipcMain.handle('terminal-get-cwd') *)
terminalGetCwd(m) ==
    /\ \E cwd \in (IF Live(m.id) THEN getCwd(ptyProcesses[m.id]) ELSE {Home}) :
          toRenderer' = Append(toRenderer, CwdReply(cwd, m.k))
    /\ UNCHANGED mainVars

(* ptyProcess.write(data): a process that has terminated reads nothing *)
write(p, data) ==
    IF p.state = "running" THEN [p EXCEPT !.inputs = @ \cup {data}] ELSE p

terminalInputWrites(id) == Live(id)

(* ipcMain.on('terminal-input') *)
terminalInput(m) ==
    /\ procs' = IF terminalInputWrites(m.id)
                THEN [procs EXCEPT ![ptyProcesses[m.id]] = write(@, m.data)]
                ELSE procs
    /\ UNCHANGED <<mainWindow, ptyProcesses, closingTerminals, toRenderer>>

(* ptyProcess.resize(cols, rows) inside try/catch: the resize of a process
   that has terminated throws and the error is only logged *)
resize(p, cols, rows) ==
    IF p.state = "running" THEN [p EXCEPT !.cols = cols, !.rows = rows] ELSE p

(* the handler without its check of the dimensions *)
terminalResizeCalls_anyGeometry(id, cols, rows) == Live(id)

terminalResizeCalls(id, cols, rows) == Live(id) /\ cols > 0 /\ rows > 0

(* ipcMain.on('terminal-resize') *)
terminalResize(m) ==
    /\ procs' = IF terminalResizeCalls(m.id, m.cols, m.rows)
                THEN [procs EXCEPT ![ptyProcesses[m.id]] =
                                        resize(@, m.cols, m.rows)]
                ELSE procs
    /\ UNCHANGED <<mainWindow, ptyProcesses, closingTerminals, toRenderer>>

(* a handler that lets the error of ptyProcess.resize escape *)
resizeErrorCaught_none == FALSE

(* try { ptyProcess.resize(cols, rows) } catch (error) { console.error } *)
resizeErrorCaught == TRUE

(* ipcMain.on('terminal-resize') when ptyProcess.resize throws: the process
   keeps its geometry, and the handler returns or is left by the error *)
terminalResizeFails(m) ==
    /\ terminalResizeCalls(m.id, m.cols, m.rows)
    /\ UNCHANGED <<mainWindow, ptyProcesses, closingTerminals, procs,
                   toRenderer>>

(* ptyProcess.kill() *)
kill(p) ==
    IF p.state = "running" THEN [p EXCEPT !.state = "dead", !.killed = TRUE]
    ELSE p

(* terminal-close without ptyProcesses.delete(id) *)
terminalCloseTable_kept(id) == ptyProcesses

terminalCloseTable(id) == TableWithout(id)      \* ptyProcesses.delete(id)

(* ipcMain.on('terminal-close') *)
terminalClose(m) ==
    /\ IF Live(m.id)
       THEN /\ closingTerminals' = closingTerminals \cup {m.id}
            /\ procs' = [procs EXCEPT ![ptyProcesses[m.id]] = kill(@)]
            /\ ptyProcesses' = terminalCloseTable(m.id)
       ELSE UNCHANGED <<closingTerminals, procs, ptyProcesses>>
    /\ UNCHANGED <<mainWindow, toRenderer>>

(* onExit without the closingTerminals test *)
onExitNotifies_always(id) == TRUE

(* onExit that swallows every exit *)
onExitNotifies_never(id) == FALSE

(* the onExit callback of createPty *)
onExitNotifies(id) == id \notin closingTerminals

(* an onExit that leaves closingTerminals as it is *)
onExitClosing_kept(id) == closingTerminals

onExitClosing(id) == closingTerminals \ {id}    \* closingTerminals.delete(id)

onExit(pid) ==
    /\ procs[pid].state = "dead"
    /\ LET id == procs[pid].id IN
         /\ IF onExitNotifies(id) /\ mainWindow   \* mainWindow?.webContents.send
            THEN /\ toRenderer' = Append(toRenderer, TerminalExit(id))
                 /\ procs' = [procs EXCEPT ![pid].state = "exited",
                                           ![pid].notes = @ + 1]
            ELSE /\ toRenderer' = toRenderer
                 /\ procs' = [procs EXCEPT ![pid].state = "exited"]
         /\ ptyProcesses' = TableWithout(id)
         /\ closingTerminals' = onExitClosing(id)
         /\ UNCHANGED mainWindow

(* mainWindow.on('closed'): every pty of the table is killed and the table
   is cleared; closingTerminals is left as it is *)
windowClosed ==
    /\ mainWindow' = FALSE
    /\ procs' = [pid \in DOMAIN procs |->
                    IF \E id \in DOMAIN ptyProcesses : ptyProcesses[id] = pid
                    THEN kill(procs[pid]) ELSE procs[pid]]
    /\ ptyProcesses' = << >>
    /\ UNCHANGED closingTerminals

(* the shell of a session terminates on its own *)
processExits(pid) ==
    /\ procs[pid].state = "running"
    /\ procs' = [procs EXCEPT ![pid].state = "dead"]
    /\ UNCHANGED <<mainWindow, ptyProcesses, closingTerminals, toRenderer>>

(* the shell of a session changes its working directory *)
processChdir(pid) ==
    /\ procs[pid].state = "running"
    /\ \E d \in Dirs \ {procs[pid].dir} :
          procs' = [procs EXCEPT ![pid].dir = d]
    /\ UNCHANGED <<mainWindow, ptyProcesses, closingTerminals, toRenderer>>

(* The handlers as the application drives them: each takes the next message
   of the renderer -> main channel. *)

Receives(type) == toMain # <<>> /\ Head(toMain).type = type

OnTerminalCreate ==
    /\ Receives("terminal-create")
    /\ terminalCreate(Head(toMain))
    /\ toMain' = Tail(toMain)
    /\ UNCHANGED <<rendererVars, lastCall>>

OnTerminalGetCwd ==
    /\ Receives("terminal-get-cwd")
    /\ terminalGetCwd(Head(toMain))
    /\ toMain' = Tail(toMain)
    /\ UNCHANGED <<rendererVars, lastCall>>

OnTerminalInput ==
    /\ Receives("terminal-input")
    /\ terminalInput(Head(toMain))
    /\ toMain' = Tail(toMain)
    /\ UNCHANGED <<rendererVars, lastCall>>

OnTerminalResize ==
    /\ Receives("terminal-resize")
    /\ terminalResize(Head(toMain))
    /\ toMain' = Tail(toMain)
    /\ UNCHANGED <<rendererVars, lastCall>>

OnExit(pid) == onExit(pid) /\ UNCHANGED <<rendererVars, toMain, lastCall>>

ProcessExits(pid) ==
    processExits(pid) /\ UNCHANGED <<rendererVars, toMain, lastCall>>

ProcessChdir(pid) ==
    processChdir(pid) /\ UNCHANGED <<rendererVars, toMain, lastCall>>


-----------------------------------------------------------------------------
(* Renderer: TerminalPane (src/src/renderer/Help.tsx:136-341) *)

RECURSIVE mountMessages(_, _)
(* useLayoutEffect of every pane of the committed tree, in depth-first
   order: a pane whose id has no surface yet gets one and asks the main
   process for a pty; a pane whose id has a surface reuses it. *)
mountMessages(leaves, store) ==
    IF leaves = <<>> THEN <<>>
    ELSE IF Head(leaves).paneId \in store
         THEN mountMessages(Tail(leaves), store)
         ELSE <<createTerminal(Head(leaves).paneId, Head(leaves).cwd)>>
              \o mountMessages(Tail(leaves), store \cup {Head(leaves).paneId})

(* what unmounting the pane of a closed id sends to the main process: the
   cleanup of the layout effect keeps the surface and sends nothing *)
unmountMessages(id) == <<>>

(* the commit that follows a change of the layout state *)
Commit(removed) ==
    /\ globalTerminals' = globalTerminals \cup PaneIdsOf(layout')
    /\ toMain' = toMain \o removed
                        \o mountMessages(Leaves(layout'), globalTerminals)

(* term.onData: a keystroke typed into the surface of a mounted pane *)
Keystroke(p) ==
    /\ p \in PaneIdsOf(layout)
    /\ Len(toMain) < MaxQueue
    /\ toMain' = Append(toMain, sendTerminalInput(p, KeyData))
    /\ UNCHANGED <<rendererVars, toRenderer, mainVars, lastCall,
                   resizeVars>>

-----------------------------------------------------------------------------
(* Renderer: the resize coordinator (Help.tsx:215-254, 294-329; the timers
   of App.tsx:95-109, 199-202, 233-236) *)

(* bookkeeping of one burst of geometry-change triggers: phase is "idle"
   before the first trigger, "open" while no timer has fired since, "fired"
   once a timer has fired, "late" when a trigger came after that; calls
   counts the resize calls of each pane in a burst that is not late *)
NoBurst ==
    [phase |-> "idle", calls |-> [p \in PaneIds |-> 0]]

RECURSIVE KeyPath(_, _)
(* the keys React identifies the TerminalPane of a pane id by: the ids of the
   nodes from the root down to the pane node (renderNode, key={node.id}) *)
KeyPath(root, paneId) ==
    IF root.type = "pane" \/ ~HasPane(root, paneId) THEN <<root.id>>
    ELSE <<root.id>>
         \o KeyPath(root.children[Head(findNodeByPaneId(root, paneId))],
                    paneId)

(* panes that stay in the tree but under other keys: React unmounts their
   TerminalPane and mounts a new one *)
Remounted(before, after) ==
    {p \in PaneIdsOf(before) \cap PaneIdsOf(after) :
        KeyPath(before, p) # KeyPath(after, p)}

(* no timer is pending and no measure-and-resize is in flight *)
Settled ==
    /\ resizeTimeout = {}
    /\ layoutTimeouts = 0
    /\ ~windowTimeout
    /\ \A p \in PaneIds : rafs[p] = 0

(* bookkeeping: a geometry-change trigger reaches the panes ps *)
trigger(ps) ==
    burst' = IF ps = {} THEN burst
             ELSE IF Settled
             THEN [NoBurst EXCEPT !.phase = "open"]
             ELSE IF burst.phase = "open"
             THEN burst
             ELSE [NoBurst EXCEPT !.phase = "late"]

(* bookkeeping: a timer fires *)
timerFired ==
    burst' = IF burst.phase = "open" THEN [burst EXCEPT !.phase = "fired"]
             ELSE burst

(* requestAnimationFrame(() => requestAnimationFrame(...)) for the panes ps *)
requestFrames(ps) ==
    /\ \A p \in ps : rafs[p] < MaxFrames
    /\ rafs' = [p \in PaneIds |-> rafs[p] + IF p \in ps THEN 1 ELSE 0]

(* what a commit of new layout and activePaneId states does to the
   coordinator: the cleanup of an unmounted TerminalPane clears its debounce
   timer (Help.tsx:256-259); a mounted TerminalPane and one whose isActive
   changed refit (Help.tsx:317-329); timers is the number of
   'terminal-layout-change' timers the handler starts *)
commitRefit(timers) ==
    LET before == PaneIdsOf(layout)
        after == PaneIdsOf(layout')
        remounted == Remounted(layout, layout')
        mounted == (after \ before) \cup remounted
        unmounted == (before \ after) \cup remounted
        activeChanged == {p \in (before \cap after) \ remounted :
                             (activePaneId = p) # (activePaneId' = p)}
    IN /\ requestFrames(mounted \cup activeChanged)
       /\ resizeTimeout' = resizeTimeout \ unmounted
       /\ layoutTimeouts + timers <= MaxTimeouts
       /\ layoutTimeouts' = layoutTimeouts + timers
       /\ windowTimeout' = windowTimeout

(* a 'terminal-layout-change' that only the active pane listens to *)
handleLayoutResize_activeOnly ==
    requestFrames({activePaneId} \cap PaneIdsOf(layout))

(* dispatchEvent('terminal-layout-change'): handleLayoutResize of every
   mounted TerminalPane *)
handleLayoutResize == requestFrames(PaneIdsOf(layout))

(* handleWindowResize: the window's resize event restarts the 100 ms timer *)
WindowResize ==
    /\ windowTimeout' = TRUE
    /\ trigger(PaneIdsOf(layout))
    /\ UNCHANGED <<appVars, aiVars, clock, splitCount, toMain, toRenderer,
                   mainVars, lastCall, sizing, paneVars,
                   resizeTimeout, layoutTimeouts, rafs>>

(* the ResizeObserver callback of a mounted pane restarts its 50 ms timer *)
ContainerResize(p) ==
    /\ p \in PaneIdsOf(layout)
    /\ resizeTimeout' = resizeTimeout \cup {p}
    /\ trigger({p})
    /\ UNCHANGED <<appVars, aiVars, clock, splitCount, toMain, toRenderer,
                   mainVars, lastCall, sizing, paneVars,
                   layoutTimeouts, windowTimeout, rafs>>

(* the debounce timer of a pane fires *)
ResizeTimeoutFires(p) ==
    /\ p \in resizeTimeout
    /\ resizeTimeout' = resizeTimeout \ {p}
    /\ requestFrames({p})
    /\ timerFired
    /\ UNCHANGED <<appVars, aiVars, clock, splitCount, toMain, toRenderer,
                   mainVars, lastCall, sizing, paneVars,
                   layoutTimeouts, windowTimeout>>

(* a timer started by splitPane or closePane fires *)
LayoutTimeoutFires ==
    /\ layoutTimeouts > 0
    /\ layoutTimeouts' = layoutTimeouts - 1
    /\ handleLayoutResize
    /\ timerFired
    /\ UNCHANGED <<appVars, aiVars, clock, splitCount, toMain, toRenderer,
                   mainVars, lastCall, sizing, paneVars,
                   resizeTimeout, windowTimeout>>

(* the timer of handleWindowResize fires *)
WindowTimeoutFires ==
    /\ windowTimeout
    /\ windowTimeout' = FALSE
    /\ handleLayoutResize
    /\ timerFired
    /\ UNCHANGED <<appVars, aiVars, clock, splitCount, toMain, toRenderer,
                   mainVars, lastCall, sizing, paneVars,
                   resizeTimeout, layoutTimeouts>>

(* the grid fitAddon.fit() measures once the pane is laid out *)
SettledGrid == <<100, 40>>

(* the second animation frame of a measure-and-resize of pane p: fit(),
   then resizeTerminal if the grid has columns and rows *)
Frame(p, grid) ==
    /\ rafs[p] > 0
    /\ rafs' = [rafs EXCEPT ![p] = @ - 1]
    /\ IF grid[1] > 0 /\ grid[2] > 0
       THEN /\ Len(toMain) < MaxQueue
            /\ toMain' = Append(toMain, resizeTerminal(p, grid[1], grid[2]))
            /\ burst' = IF burst.phase \in {"open", "fired"}
                                /\ burst.calls[p] < MaxCalls
                        THEN [burst EXCEPT !.calls[p] = @ + 1]
                        ELSE burst
       ELSE UNCHANGED <<toMain, burst>>
    /\ UNCHANGED <<appVars, aiVars, clock, splitCount, toRenderer, mainVars,
                   lastCall, sizing, paneVars, resizeTimeout, layoutTimeouts, windowTimeout>>

-----------------------------------------------------------------------------
(* Renderer: the initial sizing of a terminal surface
   (src/src/renderer/Help.tsx:240-259) *)

MaxRetries == 5     \* } else if (attempt < 5) {
MaxChains == 2      \* attemptResize chains in progress per pane id

(* the measurements of fitAddon.fit(): a surface that is not laid out yet
   has no columns, no rows, or neither *)
ZeroGrids == {<<0, 0>>, <<0, 40>>, <<100, 0>>}

(* no initial sizing under way *)
NoSizing == [timer |-> FALSE, chains |-> {}]

(* a TerminalPane was just mounted: setTimeout(() => attemptResize(), 200) *)
Mounting == [timer |-> TRUE, chains |-> {}]

(* a chain of attemptResize calls: "frame" while the measurement of the
   attempt awaits its animation frames, "wait" while the 100 ms timer of
   the next attempt is pending *)
Chain(phase, attempt) == [phase |-> phase, attempt |-> attempt]

(* a retry that never gives up *)
attemptRetries_always(attempt) == TRUE

(* else if (attempt < 5) *)
attemptRetries(attempt) == attempt < MaxRetries

(* what a commit of a new layout does to the initial sizing: the mount of a
   TerminalPane starts the 200 ms timer, the cleanup of an unmounted one
   clears it (clearTimeout(initialResizeTimeout)); the retry timers and the
   animation frames of a chain are not cancelled *)
commitSizing ==
    LET before == PaneIdsOf(layout)
        after == PaneIdsOf(layout')
        remounted == Remounted(layout, layout')
        mounted == (after \ before) \cup remounted
        unmounted == (before \ after) \cup remounted
    IN sizing' = [p \in PaneIds |->
                    [sizing[p] EXCEPT !.timer =
                        IF p \in mounted THEN TRUE
                        ELSE IF p \in unmounted THEN FALSE ELSE @]]

(* the 200 ms timer fires: attemptResize() requests its frames *)
InitialTimeoutFires(p) ==
    /\ sizing[p].timer
    /\ Chain("frame", 0) \notin sizing[p].chains
    /\ Cardinality(sizing[p].chains) < MaxChains
    /\ sizing' = [sizing EXCEPT ![p] =
                     [timer |-> FALSE,
                      chains |-> @.chains \cup {Chain("frame", 0)}]]
    /\ UNCHANGED <<appVars, aiVars, clock, splitCount, toMain, toRenderer,
                   mainVars, lastCall, resizeTimeout, layoutTimeouts,
                   windowTimeout, rafs, burst, paneVars>>

(* the second animation frame of an attempt: fit(), then resizeTerminal if
   the grid has columns and rows, else a retry in 100 ms if attempts remain *)
AttemptFrame(p, attempt, grid) ==
    LET c == Chain("frame", attempt)
        next == Chain("wait", attempt)
    IN /\ c \in sizing[p].chains
       /\ IF grid[1] > 0 /\ grid[2] > 0
          THEN /\ Len(toMain) < MaxQueue
               /\ toMain' = Append(toMain,
                                   resizeTerminal(p, grid[1], grid[2]))
               /\ sizing' = [sizing EXCEPT ![p].chains = @ \ {c}]
          ELSE IF attemptRetries(attempt)
          THEN /\ next \notin sizing[p].chains
               /\ sizing' = [sizing EXCEPT ![p].chains = (@ \ {c}) \cup {next}]
               /\ toMain' = toMain
          ELSE /\ sizing' = [sizing EXCEPT ![p].chains = @ \ {c}]
               /\ toMain' = toMain
       /\ UNCHANGED <<appVars, aiVars, clock, splitCount, toRenderer,
                      mainVars, lastCall, resizeTimeout, layoutTimeouts,
                      windowTimeout, rafs, burst, paneVars>>

(* the 100 ms timer of a retry fires: attemptResize(attempt + 1) *)
RetryFires(p, attempt) ==
    LET c == Chain("wait", attempt)
        next == Chain("frame", attempt + 1)
    IN /\ c \in sizing[p].chains
       /\ next \notin sizing[p].chains
       /\ sizing' = [sizing EXCEPT ![p].chains = (@ \ {c}) \cup {next}]
       /\ UNCHANGED <<appVars, aiVars, clock, splitCount, toMain, toRenderer,
                      mainVars, lastCall, resizeTimeout, layoutTimeouts,
                      windowTimeout, rafs, burst, paneVars>>

-----------------------------------------------------------------------------
(* Renderer: the animation frames of the measure-and-resize callbacks
   (Help.tsx:294-329, 217-233), one rendering-frame boundary at a time.
   requestAnimationFrame(() => requestAnimationFrame(cb)) puts a callback
   in front of its first boundary; the boundary runs the outer function,
   which puts cb in front of the next boundary; that boundary runs cb:
   fit(), then resizeTerminal if the grid has columns and rows. *)

(* no callback of a pane is waiting *)
NoFrames == [first |-> 0, second |-> 0]

(* one callback waits for its first boundary *)
Requested == [first |-> 1, second |-> 0]

(* requestAnimationFrame(() => requestAnimationFrame(cb)) by the panes ps *)
requestAnimation(ps) ==
    /\ \A p \in ps : stage[p].first + stage[p].second < MaxFrames
    /\ stage' = [p \in PaneIds |->
                   IF p \in ps THEN [stage[p] EXCEPT !.first = @ + 1]
                   ELSE stage[p]]

(* the callbacks of a pane that measure at a boundary, were a single
   requestAnimationFrame used *)
measuresAtBoundary_single(s) == s.first + s.second

(* the callbacks of a pane that measure at a boundary: those that have seen
   one boundary already *)
measuresAtBoundary(s) == s.second

RECURSIVE resizeCalls(_, _, _)
(* the resize calls of n callbacks of pane p that measure grid *)
resizeCalls(p, n, grid) ==
    IF n = 0 \/ grid[1] <= 0 \/ grid[2] <= 0 THEN <<>>
    ELSE <<resizeTerminal(p, grid[1], grid[2])>> \o resizeCalls(p, n - 1, grid)

RECURSIVE boundaryCalls(_, _)
(* the resize calls of one boundary, pane after pane; grids gives the grid
   each pane measures at this boundary *)
boundaryCalls(ps, grids) ==
    IF ps = {} THEN <<>>
    ELSE LET p == CHOOSE q \in ps : \A r \in ps : q <= r
         IN resizeCalls(p, measuresAtBoundary(stage[p]), grids[p])
            \o boundaryCalls(ps \ {p}, grids)

(* the attempts of the initial sizing of a pane that measure at a boundary:
   a chain in phase "frame" waits for its first boundary, one in phase
   "second" has seen it *)
attemptsMeasuring(p) == {c \in sizing[p].chains : c.phase = "second"}

(* what a boundary does to the chains of pane p, which measures grid: an
   attempt that measures a grid with columns and rows ends its chain, one
   that does not retries in 100 ms while attempts remain *)
chainsAfterBoundary(p, grid) ==
    {Chain("second", c.attempt) : c \in {d \in sizing[p].chains : d.phase = "frame"}}
    \cup {c \in sizing[p].chains : c.phase = "wait"}
    \cup IF grid[1] > 0 /\ grid[2] > 0 THEN {}
         ELSE {Chain("wait", c.attempt) :
                  c \in {d \in attemptsMeasuring(p) : attemptRetries(d.attempt)}}

RECURSIVE attemptCalls(_, _)
(* the resize calls of the attempts that measure at one boundary *)
attemptCalls(ps, grids) ==
    IF ps = {} THEN <<>>
    ELSE LET p == CHOOSE q \in ps : \A r \in ps : q <= r
         IN resizeCalls(p, Cardinality(attemptsMeasuring(p)), grids[p])
            \o attemptCalls(ps \ {p}, grids)

(* one rendering-frame boundary of the window *)
AnimationFrame(grids) ==
    LET calls == boundaryCalls(PaneIds, grids) \o attemptCalls(PaneIds, grids)
    IN /\ \E p \in PaneIds :
             \/ stage[p] # NoFrames
             \/ \E c \in sizing[p].chains : c.phase \in {"frame", "second"}
       /\ Len(toMain) + Len(calls) <= MaxQueue
       /\ toMain' = toMain \o calls
       /\ stage' = [p \in PaneIds |->
                      [first |-> 0, second |-> stage[p].first]]
       /\ sizing' = [p \in PaneIds |->
                       [sizing[p] EXCEPT
                           !.chains = chainsAfterBoundary(p, grids[p])]]
       /\ UNCHANGED <<appVars, aiVars, clock, splitCount, toRenderer,
                      mainVars, lastCall, resizeTimeout, layoutTimeouts,
                      windowTimeout, rafs, burst, emitted, written>>

(* the commit of new layout and activePaneId states: a mounted TerminalPane
   and one whose isActive changed request their frames (Help.tsx:317-329);
   the cleanup of an unmounted one clears its debounce timer
   (Help.tsx:256-259); timers is the number of 'terminal-layout-change'
   timers the handler starts *)
commitFrames(timers) ==
    LET before == PaneIdsOf(layout)
        after == PaneIdsOf(layout')
        remounted == Remounted(layout, layout')
        mounted == (after \ before) \cup remounted
        unmounted == (before \ after) \cup remounted
        activeChanged == {p \in (before \cap after) \ remounted :
                             (activePaneId = p) # (activePaneId' = p)}
    IN /\ requestAnimation(mounted \cup activeChanged)
       /\ resizeTimeout' = resizeTimeout \ unmounted
       /\ layoutTimeouts + timers <= MaxTimeouts
       /\ layoutTimeouts' = layoutTimeouts + timers
       /\ windowTimeout' = windowTimeout

(* the debounce timer of a pane fires (Help.tsx:219-232) *)
DebounceFires(p) ==
    /\ p \in resizeTimeout
    /\ resizeTimeout' = resizeTimeout \ {p}
    /\ requestAnimation({p})
    /\ UNCHANGED <<appVars, aiVars, clock, splitCount, toMain, toRenderer,
                   mainVars, lastCall, layoutTimeouts, windowTimeout,
                   rafs, burst, sizing, emitted, written>>

(* a 'terminal-layout-change' timer of splitPane or closePane fires:
   handleLayoutResize of every mounted pane *)
LayoutChangeFires ==
    /\ layoutTimeouts > 0
    /\ layoutTimeouts' = layoutTimeouts - 1
    /\ requestAnimation(PaneIdsOf(layout))
    /\ UNCHANGED <<appVars, aiVars, clock, splitCount, toMain, toRenderer,
                   mainVars, lastCall, resizeTimeout, windowTimeout,
                   rafs, burst, sizing, emitted, written>>

-----------------------------------------------------------------------------
(* Renderer: App (src/src/renderer/App.tsx:65-343) *)

Readings == {t \in {clock, clock + 1} : t <= MaxClock}   \* Date.now()

(* splitPane up to its await: the ids, the pane number and the target are
   fixed here, then the cwd of the active pane is requested *)
SplitStart(direction, position) ==
    /\ splitCount < MaxSplits
    /\ Len(toMain) < MaxQueue
    /\ \E now \in Readings :
         /\ clock' = now
         /\ toMain' = Append(toMain,
               getTerminalCwd(activePaneId,
                   [newPaneId |-> now, paneNumber |-> nextPaneNumber,
                    target |-> activePaneId, direction |-> direction,
                    position |-> position]))
    /\ splitCount' = splitCount + 1
    /\ UNCHANGED <<appVars, aiVars, toRenderer, mainVars, lastCall,
                   resizeVars>>

(* splitPane after its await *)
splitPaneResumes ==
    /\ toRenderer # <<>>
    /\ Head(toRenderer).type = "cwd-reply"
    /\ LET m == Head(toRenderer)
           k == m.k
           newPaneNode == PaneNode(<<"node", k.newPaneId>>, k.newPaneId,
                                   m.cwd, k.paneNumber)
       IN /\ terminals' = Append(terminals, k.newPaneId)
          /\ activePaneId' = k.newPaneId
          /\ nextPaneNumber' = nextPaneNumber + 1
          /\ \E now \in Readings :
               /\ clock' = now
               /\ layout' = splitLayout(layout, k.target, k.direction,
                                        k.position, newPaneNode, now)
    /\ toRenderer' = Tail(toRenderer)
    /\ Commit(<<>>)
    /\ UNCHANGED <<aiVars, splitCount, mainVars, lastCall, retiredNumbers>>

(* splitPane after its await, the resize coordinator left aside *)
SplitFinish == splitPaneResumes /\ UNCHANGED resizeVars

(* history: the display numbers of the panes a step takes out of the tree *)
Retires ==
    retiredNumbers' = retiredNumbers \cup
        {Leaves(layout)[i].paneNumber : i \in
            {j \in 1..Len(Leaves(layout)) :
                ~HasPane(layout', Leaves(layout)[j].paneId)}}

closePaneAccepts == Len(terminals) > 1

closePaneActive(targetPaneId) ==
    LET remaining == Filter(terminals, targetPaneId) IN
    IF activePaneId = targetPaneId /\ Len(remaining) > 0
    THEN remaining[1] ELSE activePaneId

(* closePane: the close button of a pane, or Cmd+W on the active pane *)
closePane(targetPaneId) ==
    /\ \/ targetPaneId = activePaneId
       \/ targetPaneId \in PaneIdsOf(layout) /\ Len(terminals) > 1
    /\ closePaneAccepts
    /\ layout' = removeFromLayout(layout, targetPaneId)
    /\ terminals' = Filter(terminals, targetPaneId)
    /\ activePaneId' = closePaneActive(targetPaneId)
    /\ Retires
    /\ Commit(unmountMessages(targetPaneId))
    /\ UNCHANGED <<nextPaneNumber, aiVars, clock, splitCount, toRenderer,
                   mainVars, lastCall>>

(* closePane, the resize coordinator left aside *)
ClosePane(targetPaneId) == closePane(targetPaneId) /\ UNCHANGED resizeVars

(* a listener that removes the pane whatever the answer *)
onTerminalExit_unasked(shouldClose) ==
    /\ toRenderer # <<>>
    /\ Head(toRenderer).type = "terminal-exit"
    /\ layout' = removeFromLayout(layout, Head(toRenderer).id)
    /\ terminals' = Filter(terminals, Head(toRenderer).id)
    /\ Retires
    /\ toRenderer' = Tail(toRenderer)
    /\ Commit(<<>>)
    /\ UNCHANGED <<activePaneId, nextPaneNumber, aiVars, clock, splitCount,
                   mainVars, lastCall>>

(* the onTerminalExit listener; shouldClose is the answer to window.confirm *)
onTerminalExit(shouldClose) ==
    /\ toRenderer # <<>>
    /\ Head(toRenderer).type = "terminal-exit"
    /\ LET id == Head(toRenderer).id IN
         IF shouldClose
         THEN /\ layout' = removeFromLayout(layout, id)
              /\ terminals' = Filter(terminals, id)
         ELSE UNCHANGED <<layout, terminals>>
    /\ Retires
    /\ toRenderer' = Tail(toRenderer)
    /\ Commit(<<>>)
    /\ UNCHANGED <<activePaneId, nextPaneNumber, aiVars, clock, splitCount,
                   mainVars, lastCall>>

(* the onTerminalExit listener, the resize coordinator left aside *)
OnTerminalExit(shouldClose) == onTerminalExit(shouldClose) /\ UNCHANGED resizeVars

(* a click on a pane *)
setActivePaneId(p) ==
    /\ p \in PaneIdsOf(layout)
    /\ activePaneId' = p
    /\ UNCHANGED <<layout, terminals, nextPaneNumber, globalTerminals,
                   retiredNumbers, aiVars,
                   clock, splitCount, toMain, toRenderer, mainVars, lastCall>>

(* a click on a pane, the resize coordinator left aside *)
FocusPane(p) == setActivePaneId(p) /\ UNCHANGED resizeVars

(* Cmd+1 .. Cmd+9 *)
FocusNumber(n) ==
    /\ LET paneId == findPaneIdByNumber(layout, n) IN
         activePaneId' = IF paneId # 0 THEN paneId ELSE activePaneId
    /\ UNCHANGED <<layout, terminals, nextPaneNumber, globalTerminals,
                   retiredNumbers, aiVars,
                   clock, splitCount, toMain, toRenderer, mainVars, lastCall,
                   resizeVars>>

-----------------------------------------------------------------------------
(* Renderer: the command review (src/src/renderer/App.tsx:239-291, 444-485) *)

Labelled(cmd) == [labelled |-> TRUE, command |-> cmd, text |-> ""]
Raw(text) == [labelled |-> FALSE, command |-> "", text |-> text]
Responses == {Labelled("ls"), Raw("rm")}    \* what askAI may resolve with
(* a catch branch that stores no command *)
ConnectError_none == Null

ConnectError == "echo-error"     \* echo "Error connecting to AI service."

(* what callAI resolves with when the request failed or no provider is set:
   COMMAND: echo "AI Error: ..." and COMMAND: echo "Provider not configured" *)
FailureResponses == {Labelled("echo-ai-error"), Labelled("echo-not-configured")}

(* cmdMatch ? cmdMatch[1].trim() : response.trim() *)
parseCommand(response) ==
    IF response.labelled THEN response.command ELSE response.text

Truthy(cmd) == cmd # Null /\ cmd # ""

(* the review with its Execute and Cancel buttons is rendered *)
ReviewShown == showAiBar /\ ~isProcessing /\ Truthy(pendingCommand)

(* Cmd+Shift+P *)
OpenAiBar ==
    /\ ~showAiBar
    /\ showAiBar' = TRUE
    /\ UNCHANGED <<appVars, pendingCommand, isProcessing, clock, splitCount,
                   toMain, toRenderer, mainVars, lastCall,
                   resizeVars>>

(* handleAiSubmit and handleRefineSubmit, up to the await of askAI *)
AskAI ==
    /\ showAiBar /\ ~isProcessing
    /\ isProcessing' = TRUE
    /\ UNCHANGED <<appVars, showAiBar, pendingCommand, clock, splitCount,
                   toMain, toRenderer, mainVars, lastCall,
                   resizeVars>>

(* a processAIRequest that runs the command it received *)
processAIRequestSends_auto(cmd) ==
    <<sendTerminalInput(activePaneId, CommandLine(cmd))>>

(* what processAIRequest sends to the terminals on a result: nothing, the
   command is only stored for review *)
processAIRequestSends(cmd) == <<>>

(* processAIRequest after its await: the promise resolved *)
AIResponse(response) ==
    /\ isProcessing
    /\ pendingCommand' = parseCommand(response)
    /\ isProcessing' = FALSE
    /\ toMain' = toMain \o processAIRequestSends(parseCommand(response))
    /\ UNCHANGED <<appVars, showAiBar, clock, splitCount, toRenderer,
                   mainVars, lastCall,
                   resizeVars>>

(* processAIRequest after its await: the promise rejected *)
AIFailure ==
    /\ isProcessing
    /\ pendingCommand' = ConnectError
    /\ isProcessing' = FALSE
    /\ UNCHANGED <<appVars, showAiBar, clock, splitCount, toMain, toRenderer,
                   mainVars, lastCall,
                   resizeVars>>

(* an executeCommand that sends the command to every tracked terminal *)
executeCommandSends_all ==
    [i \in 1..Len(terminals) |->
        sendTerminalInput(terminals[i], CommandLine(pendingCommand))]

(* window.electronAPI.sendTerminalInput(activePaneId, pendingCommand + '\n') *)
executeCommandSends ==
    <<sendTerminalInput(activePaneId, CommandLine(pendingCommand))>>

(* executeCommand: the Execute button of the review *)
ExecuteCommand ==
    /\ ReviewShown
    /\ Len(toMain) < MaxQueue
    /\ toMain' = toMain \o executeCommandSends
    /\ pendingCommand' = Null
    /\ showAiBar' = FALSE
    /\ UNCHANGED <<appVars, isProcessing, clock, splitCount, toRenderer,
                   mainVars, lastCall,
                   resizeVars>>

(* cancelCommand: the Cancel button of the review *)
CancelCommand ==
    /\ ReviewShown
    /\ pendingCommand' = Null
    /\ UNCHANGED <<appVars, showAiBar, isProcessing, clock, splitCount,
                   toMain, toRenderer, mainVars, lastCall,
                   resizeVars>>

(* the Escape key *)
Escape ==
    /\ showAiBar \/ pendingCommand # Null
    /\ showAiBar' = FALSE
    /\ pendingCommand' = Null
    /\ UNCHANGED <<appVars, isProcessing, clock, splitCount, toMain,
                   toRenderer, mainVars, lastCall,
                   resizeVars>>

-----------------------------------------------------------------------------
(* Spec: the panes and their sessions.  The layout actions of App, the
   terminal surfaces, and the main process serving them. *)

Init ==
    /\ layout = InitialLayout
    /\ activePaneId = FirstPane
    /\ terminals = <<FirstPane>>
    /\ nextPaneNumber = FirstNumber + 1
    /\ showAiBar = FALSE
    /\ pendingCommand = Null
    /\ isProcessing = FALSE
    /\ globalTerminals = {FirstPane}
    /\ clock = T0
    /\ toMain = <<createTerminal(FirstPane, Undefined)>>
    /\ toRenderer = <<>>
    /\ mainWindow = TRUE
    /\ ptyProcesses = << >>
    /\ closingTerminals = {}
    /\ procs = <<>>
    /\ splitCount = 0
    /\ lastCall = Call("none", 0)
    /\ resizeTimeout = {}
    /\ layoutTimeouts = 0
    /\ windowTimeout = FALSE
    /\ rafs = [p \in PaneIds |-> IF p = FirstPane THEN 1 ELSE 0]
    /\ burst = NoBurst
    /\ sizing = [p \in PaneIds |-> IF p = FirstPane THEN Mounting ELSE NoSizing]
    /\ retiredNumbers = {}
    /\ stage = [p \in PaneIds |-> IF p = FirstPane THEN Requested ELSE NoFrames]
    /\ emitted = [p \in PaneIds |-> 0]
    /\ written = [p \in PaneIds |-> <<>>]

LayoutStep ==
    \/ \E d \in Directions, pos \in Positions : SplitStart(d, pos)
    \/ SplitFinish
    \/ \E p \in PaneIdsOf(layout) \cup {activePaneId} : ClosePane(p)
    \/ \E b \in BOOLEAN : OnTerminalExit(b)
    \/ \E p \in PaneIdsOf(layout) : FocusPane(p)
    \/ \E n \in 1..MaxDigit : n <= nextPaneNumber /\ FocusNumber(n)

SessionStep ==
    \/ OnTerminalCreate
    \/ OnTerminalGetCwd
    \/ \E pid \in DOMAIN procs : OnExit(pid)
    \/ \E pid \in DOMAIN procs : ProcessExits(pid)

Next == LayoutStep \/ SessionStep

Spec == Init /\ [][Next]_vars

-----------------------------------------------------------------------------
(* SpecCwd: the working directory of new panes.  Splits to the right of and
   below the focused pane while the shells change directory and exit. *)

CwdStep ==
    \/ \E d \in Directions : SplitStart(d, "after")
    \/ SplitFinish
    \/ \E p \in PaneIdsOf(layout) : FocusPane(p)
    \/ \E b \in BOOLEAN : OnTerminalExit(b)
    \/ OnTerminalCreate
    \/ OnTerminalGetCwd
    \/ \E pid \in DOMAIN procs : OnExit(pid)
    \/ \E pid \in DOMAIN procs : ProcessExits(pid)
    \/ \E pid \in DOMAIN procs : ProcessChdir(pid)

SpecCwd == Init /\ [][CwdStep]_vars

-----------------------------------------------------------------------------
(* SpecAssistant: the command review over one or two panes.  The assistant
   actions of App, one split to the right, the focus, and the main process
   serving the panes while their shells may exit. *)

AssistantStep ==
    \/ OpenAiBar
    \/ AskAI
    \/ \E r \in Responses : AIResponse(r)
    \/ ExecuteCommand
    \/ CancelCommand
    \/ Escape
    \/ \E p \in PaneIdsOf(layout) : FocusPane(p)
    \/ (splitCount = 0 /\ SplitStart("horizontal", "after"))
    \/ SplitFinish
    \/ \E b \in BOOLEAN : OnTerminalExit(b)

AssistantSessionStep ==
    \/ OnTerminalCreate
    \/ OnTerminalGetCwd
    \/ OnTerminalInput
    \/ \E pid \in DOMAIN procs : OnExit(pid)
    \/ \E pid \in DOMAIN procs : ProcessExits(pid)

NextAssistant == AssistantStep \/ AssistantSessionStep

SpecAssistant == Init /\ [][NextAssistant]_vars

-----------------------------------------------------------------------------
(* SpecRegistry: the session registry of the main process under any
   sequence of calls of its IPC interface (create, input, resize, close) and
   of process exits.  toRenderer keeps every notification sent. *)

CallIds == {FirstPane, T0}
CallData == {KeyData}
CallCols == {-1, 0, 100}
CallRows == {-1, 0, 40}

CallCreate(id, cwd) ==
    /\ Len(procs) < MaxProcs
    /\ terminalCreate(createTerminal(id, cwd))
    /\ lastCall' = Call(IF Live(id) THEN "create-existing" ELSE "create", id)
    /\ UNCHANGED <<rendererVars, toMain>>

CallInput(id, data) ==
    /\ terminalInput(sendTerminalInput(id, data))
    /\ lastCall' = Call(IF Live(id) THEN "input" ELSE "input-noop", id)
    /\ UNCHANGED <<rendererVars, toMain>>

CallResize(id, cols, rows) ==
    /\ terminalResize(resizeTerminal(id, cols, rows))
    /\ lastCall' = Call(IF Live(id) THEN "resize" ELSE "resize-noop", id)
    /\ UNCHANGED <<rendererVars, toMain>>

CallClose(id) ==
    /\ terminalClose(closeTerminal(id))
    /\ lastCall' = Call(IF Live(id) THEN "close" ELSE "close-noop", id)
    /\ UNCHANGED <<rendererVars, toMain>>

ExitCallback(pid) ==
    /\ onExit(pid)
    /\ lastCall' = Call(IF procs[pid].id \in closingTerminals
                        THEN "exit-expected" ELSE "exit-unsolicited",
                        procs[pid].id)
    /\ UNCHANGED <<rendererVars, toMain>>

ProcessEnds(pid) ==
    /\ processExits(pid)
    /\ lastCall' = Call("process-ends", procs[pid].id)
    /\ UNCHANGED <<rendererVars, toMain>>

NextRegistry ==
    \/ \E id \in CallIds, cwd \in {Undefined, "work"} : CallCreate(id, cwd)
    \/ \E id \in CallIds, data \in CallData : CallInput(id, data)
    \/ \E id \in CallIds, c \in CallCols, r \in CallRows : CallResize(id, c, r)
    \/ \E id \in CallIds : CallClose(id)
    \/ \E pid \in DOMAIN procs : ExitCallback(pid)
    \/ \E pid \in DOMAIN procs : ProcessEnds(pid)

SpecRegistry == Init /\ [][NextRegistry]_vars


-----------------------------------------------------------------------------
(* SpecResize: the resize coordinator. One split, closes, activations,
   window and container resizes, the timers and animation frames they start,
   and the main process serving the messages.  Every pane is laid out: fit()
   measures the settled grid. *)

(* splitPane after its await, with its refits and its timer *)
SplitSettles ==
    /\ splitPaneResumes
    /\ UNCHANGED <<sizing, paneVars>>
    /\ commitRefit(1)
    /\ trigger(PaneIdsOf(layout'))

(* closePane, with its refits and its timer *)
CloseSettles(targetPaneId) ==
    /\ closePane(targetPaneId)
    /\ UNCHANGED <<sizing, paneVars>>
    /\ commitRefit(1)
    /\ trigger(PaneIdsOf(layout'))

(* a click on a pane that is not the active one *)
ActivatePane(p) ==
    /\ p # activePaneId
    /\ setActivePaneId(p)
    /\ commitRefit(0)
    /\ UNCHANGED <<sizing, paneVars>>
    /\ trigger({q \in PaneIdsOf(layout) : q = p \/ q = activePaneId})

ResizeStep ==
    \/ \E d \in Directions : splitCount = 0 /\ SplitStart(d, "after")
    \/ SplitSettles
    \/ \E p \in PaneIdsOf(layout) : CloseSettles(p)
    \/ \E p \in PaneIdsOf(layout) : ActivatePane(p)
    \/ WindowResize
    \/ \E p \in PaneIdsOf(layout) : ContainerResize(p)
    \/ \E p \in PaneIds : ResizeTimeoutFires(p)
    \/ LayoutTimeoutFires
    \/ WindowTimeoutFires
    \/ \E p \in PaneIds : Frame(p, SettledGrid)

ResizeSessionStep ==
    \/ OnTerminalCreate
    \/ OnTerminalGetCwd
    \/ OnTerminalResize

NextResize == ResizeStep \/ ResizeSessionStep

SpecResize == Init /\ [][NextResize]_vars

-----------------------------------------------------------------------------
(* SpecSizing: the initial sizing of the panes.  One split, then a close,
   while the surfaces measure grids with or without columns and rows.  The
   timers and the animation frames of the browser do fire. *)

Attempts == 0..(MaxRetries + 1)

(* splitPane after its await, with the mounts of its commit *)
SplitMounts ==
    /\ splitPaneResumes
    /\ commitSizing
    /\ UNCHANGED <<resizeTimeout, layoutTimeouts, windowTimeout, rafs, burst, paneVars>>

(* closePane, with the unmounts of its commit *)
CloseUnmounts(targetPaneId) ==
    /\ closePane(targetPaneId)
    /\ commitSizing
    /\ UNCHANGED <<resizeTimeout, layoutTimeouts, windowTimeout, rafs, burst, paneVars>>

SizingProgress ==
    \/ \E p \in PaneIds : InitialTimeoutFires(p)
    \/ \E p \in PaneIds, a \in Attempts, grid \in ZeroGrids \cup {SettledGrid} :
          AttemptFrame(p, a, grid)
    \/ \E p \in PaneIds, a \in Attempts : RetryFires(p, a)

SizingStep ==
    \/ \E d \in Directions : splitCount = 0 /\ SplitStart(d, "after")
    \/ SplitMounts
    \/ \E p \in PaneIdsOf(layout) : CloseUnmounts(p)
    \/ SizingProgress

SizingSessionStep ==
    \/ OnTerminalCreate
    \/ OnTerminalGetCwd
    \/ OnTerminalResize

NextSizing == SizingStep \/ SizingSessionStep

SpecSizing ==
    /\ Init
    /\ [][NextSizing]_vars
    /\ WF_vars(SizingProgress)
    /\ WF_vars(SizingSessionStep)

-----------------------------------------------------------------------------
(* SpecDeadPane: panes whose shell has exited.  One split, closes, shells
   that exit on their own, the prompt answered either way, keystrokes into
   all panes, those of exited shells included, and the refit of the first
   pane after its mount. *)

DeadPaneStep ==
    \/ \E d \in Directions : splitCount = 0 /\ SplitStart(d, "after")
    \/ SplitFinish
    \/ \E p \in PaneIdsOf(layout) : ClosePane(p)
    \/ \E b \in BOOLEAN : OnTerminalExit(b)
    \/ \E p \in PaneIdsOf(layout) : Keystroke(p)
    \/ \E p \in PaneIds : Frame(p, SettledGrid)

DeadPaneSessionStep ==
    \/ OnTerminalCreate
    \/ OnTerminalGetCwd
    \/ OnTerminalInput
    \/ OnTerminalResize
    \/ \E pid \in DOMAIN procs : OnExit(pid)
    \/ \E pid \in DOMAIN procs : ProcessExits(pid)

NextDeadPane == DeadPaneStep \/ DeadPaneSessionStep

SpecDeadPane == Init /\ [][NextDeadPane]_vars

-----------------------------------------------------------------------------
(* SpecSpawn: the session registry when pty.spawn can fail: the calls and
   exits of SpecRegistry, and creates whose spawn throws.  A spawn whose
   process starts and ends at once is a create followed by a process exit. *)

CallCreateThrows(id, cwd) ==
    /\ terminalCreateThrows(createTerminal(id, cwd))
    /\ lastCall' = Call("create-throws", id)
    /\ UNCHANGED <<rendererVars, toMain>>

CallResizeFails(id, cols, rows) ==
    /\ terminalResizeFails(resizeTerminal(id, cols, rows))
    /\ lastCall' = Call(IF resizeErrorCaught THEN "resize-failed"
                        ELSE "resize-threw", id)
    /\ UNCHANGED <<rendererVars, toMain>>

NextSpawn ==
    \/ NextRegistry
    \/ \E id \in CallIds, cwd \in {Undefined, "work"} : CallCreateThrows(id, cwd)
    \/ \E id \in CallIds, c \in CallCols, r \in CallRows : CallResizeFails(id, c, r)

SpecSpawn == Init /\ [][NextSpawn]_vars

-----------------------------------------------------------------------------
(* SpecTranslation: translation requests that fail.  The assistant actions
   of App with results, failure results and rejected requests over the first
   pane, and the main process serving it. *)

TranslationStep ==
    \/ OpenAiBar
    \/ AskAI
    \/ \E r \in Responses \cup FailureResponses : AIResponse(r)
    \/ AIFailure
    \/ ExecuteCommand
    \/ CancelCommand
    \/ Escape

TranslationSessionStep ==
    \/ OnTerminalCreate
    \/ OnTerminalInput

NextTranslation == TranslationStep \/ TranslationSessionStep

SpecTranslation == Init /\ [][NextTranslation]_vars

-----------------------------------------------------------------------------
(* SpecProbe: the working-directory probe of the main process on every
   platform and with every outcome, under any sequence of creates, closes,
   changes of directory and process exits.  The caller takes the replies. *)

CallGetCwd(id, platform, probe) ==
    /\ Len(toRenderer) < MaxQueue
    /\ terminalGetCwdOn(getTerminalCwd(id, NoK), platform, probe)
    /\ lastCall' = Call(IF Live(id) /\ probe = "ok"
                        THEN "cwd-probed" ELSE "cwd-fallback", id)
    /\ UNCHANGED <<rendererVars, toMain>>

ChdirCall(pid) ==
    /\ processChdir(pid)
    /\ lastCall' = Call("chdir", procs[pid].id)
    /\ UNCHANGED <<rendererVars, toMain>>

(* the caller receives the next message of the main process *)
ReplyTaken ==
    /\ toRenderer # <<>>
    /\ toRenderer' = Tail(toRenderer)
    /\ lastCall' = Call("reply-taken", 0)
    /\ UNCHANGED <<rendererVars, toMain, mainVars>>

NextProbe ==
    \/ \E id \in CallIds, cwd \in {Undefined, "work"} : CallCreate(id, cwd)
    \/ \E id \in CallIds : CallClose(id)
    \/ \E pid \in DOMAIN procs : ExitCallback(pid)
    \/ \E pid \in DOMAIN procs : ProcessEnds(pid)
    \/ \E pid \in DOMAIN procs : ChdirCall(pid)
    \/ \E id \in CallIds, platform \in Platforms :
          \E probe \in Probes(platform) : CallGetCwd(id, platform, probe)
    \/ ReplyTaken

SpecProbe == Init /\ [][NextProbe]_vars

-----------------------------------------------------------------------------
(* SpecWindow: the life of the window on macOS, where the application keeps
   running without a window (part_003:460-470): the window is closed, the
   application is activated again and a new renderer starts from the initial
   state of App. *)

(* the user closes the window; the renderer and both directions of its
   channel are gone *)
WindowClosed ==
    /\ mainWindow
    /\ windowClosed
    /\ toMain' = <<>>
    /\ toRenderer' = <<>>
    /\ UNCHANGED <<rendererVars, lastCall>>

(* app.on('activate') -> createWindow(): a new renderer mounts the first pane *)
AppActivate ==
    /\ ~mainWindow
    /\ Len(toMain) < MaxQueue
    /\ Len(procs) < MaxProcs
    /\ mainWindow' = TRUE
    /\ layout' = InitialLayout
    /\ activePaneId' = FirstPane
    /\ terminals' = <<FirstPane>>
    /\ nextPaneNumber' = FirstNumber + 1
    /\ showAiBar' = FALSE
    /\ pendingCommand' = Null
    /\ isProcessing' = FALSE
    /\ globalTerminals' = {FirstPane}
    /\ toMain' = Append(toMain, createTerminal(FirstPane, Undefined))
    /\ resizeTimeout' = {}
    /\ layoutTimeouts' = 0
    /\ windowTimeout' = FALSE
    /\ rafs' = [p \in PaneIds |-> IF p = FirstPane THEN 1 ELSE 0]
    /\ burst' = NoBurst
    /\ sizing' = [p \in PaneIds |-> IF p = FirstPane THEN Mounting ELSE NoSizing]
    /\ retiredNumbers' = {}
    /\ stage' = [p \in PaneIds |-> IF p = FirstPane THEN Requested ELSE NoFrames]
    /\ written' = [p \in PaneIds |-> <<>>]
    /\ emitted' = emitted
    /\ UNCHANGED <<clock, splitCount, toRenderer, ptyProcesses,
                   closingTerminals, procs, lastCall>>

WindowStep ==
    \/ WindowClosed
    \/ AppActivate
    \/ \E d \in Directions : mainWindow /\ splitCount = 0 /\ SplitStart(d, "after")
    \/ mainWindow /\ SplitFinish
    \/ \E b \in BOOLEAN : mainWindow /\ OnTerminalExit(b)
    \/ \E p \in PaneIdsOf(layout) : mainWindow /\ FocusPane(p)

WindowSessionStep ==
    \/ OnTerminalCreate
    \/ OnTerminalGetCwd
    \/ \E pid \in DOMAIN procs : OnExit(pid)
    \/ \E pid \in DOMAIN procs : ProcessExits(pid)

NextWindow == WindowStep \/ WindowSessionStep

SpecWindow == Init /\ [][NextWindow]_vars

-----------------------------------------------------------------------------
(* SpecSettle: the refits that follow splits and closes.  One split, closes,
   the 'terminal-layout-change' timers and the animation frames they start,
   and the main process serving the messages.  Every pane is laid out:
   fit() measures the settled grid.  Timers fire, frames are rendered, the
   await of splitPane resumes and the main process handles its messages. *)

SettleProgress ==
    \/ SplitSettles
    \/ LayoutTimeoutFires
    \/ \E p \in PaneIds : Frame(p, SettledGrid)
    \/ OnTerminalCreate
    \/ OnTerminalGetCwd
    \/ OnTerminalResize

SettleStep ==
    \/ \E d \in Directions : splitCount = 0 /\ SplitStart(d, "after")
    \/ \E p \in PaneIdsOf(layout) : CloseSettles(p)
    \/ SettleProgress

SpecSettle == Init /\ [][SettleStep]_vars /\ WF_vars(SettleProgress)

-----------------------------------------------------------------------------
(* The output of the sessions: createPty's onData (part_003:328-330), the
   onTerminalData listener of App (App.tsx:89-93) and handleData of
   TerminalPane (Help.tsx:267-272) *)

(* the n-th chunk the processes of session id produce *)
Chunk(id, n) == <<id, n>>

(* webContents.send('terminal-data', { id, data }) *)
terminalData(id, data) == Msg("terminal-data", id, Undefined, data, 0, 0, NoK)

(* ptyProcess.onData: a running process produces a chunk, which goes to the
   window if there is one *)
ProcessEmits(pid) ==
    /\ procs[pid].state = "running"
    /\ LET id == procs[pid].id
           data == Chunk(id, emitted[id] + 1)
       IN /\ emitted[id] < MaxChunks
          /\ emitted' = [emitted EXCEPT ![id] = @ + 1]
          /\ IF mainWindow
             THEN /\ Len(toRenderer) < MaxQueue
                  /\ toRenderer' = Append(toRenderer, terminalData(id, data))
             ELSE toRenderer' = toRenderer
    /\ UNCHANGED <<appVars, aiVars, clock, splitCount, toMain, mainVars,
                   lastCall, resizeTimeout, layoutTimeouts, windowTimeout,
                   rafs, burst, sizing, stage, written>>

(* handleData of every TerminalPane, whatever its id *)
handleDataWrites_unfiltered(leaf, m) == <<[surface |-> leaf.paneId, data |-> m.data]>>

(* handleData of the TerminalPane of a leaf: if (e.detail.id === id &&
   xtermRef.current) xtermRef.current.write(e.detail.data) *)
handleDataWrites(leaf, m) ==
    IF m.id = leaf.paneId
    THEN <<[surface |-> leaf.paneId, data |-> m.data]>>
    ELSE <<>>

RECURSIVE dispatchData(_, _)
(* window.dispatchEvent('terminal-data-event'): the writes of the listeners
   of the mounted panes, in order *)
dispatchData(leaves, m) ==
    IF leaves = <<>> THEN <<>>
    ELSE handleDataWrites(Head(leaves), m) \o dispatchData(Tail(leaves), m)

RECURSIVE writeAll(_, _)
(* the surfaces after the writes ws *)
writeAll(surfaces, ws) ==
    IF ws = <<>> THEN surfaces
    ELSE writeAll([surfaces EXCEPT ![Head(ws).surface] =
                                       Append(@, Head(ws).data)],
                  Tail(ws))

(* the renderer receives 'terminal-data' *)
OnTerminalData ==
    /\ toRenderer # <<>>
    /\ Head(toRenderer).type = "terminal-data"
    /\ written' = writeAll(written, dispatchData(Leaves(layout), Head(toRenderer)))
    /\ toRenderer' = Tail(toRenderer)
    /\ UNCHANGED <<appVars, aiVars, clock, splitCount, toMain, mainVars,
                   lastCall, resizeTimeout, layoutTimeouts, windowTimeout,
                   rafs, burst, sizing, stage, emitted>>

-----------------------------------------------------------------------------
(* SpecOutput: the output of the sessions.  Splits to the right, also two
   at the same instant, closes, and the shells producing output while the
   main process serves the panes. *)

OutputStep ==
    \/ SplitStart("horizontal", "after")
    \/ SplitFinish
    \/ \E p \in PaneIdsOf(layout) : ClosePane(p)
    \/ OnTerminalData

OutputSessionStep ==
    \/ OnTerminalCreate
    \/ OnTerminalGetCwd
    \/ \E pid \in DOMAIN procs : ProcessEmits(pid)

NextOutput == OutputStep \/ OutputSessionStep

SpecOutput == Init /\ [][NextOutput]_vars

-----------------------------------------------------------------------------
(* SpecFrames: the resize calls of the panes, one rendering-frame boundary
   at a time.  One split to the right, container resizes, the initial
   sizing, the timers, and the main process serving the messages.  The first
   pane may measure no grid until the window is laid out, which it is by the
   time a split is accepted. *)

(* the grids the panes may measure at one boundary *)
FrameGrids == [PaneIds -> {SettledGrid, <<0, 0>>}]

(* splitPane after its await, with the mounts of its commit and its timer *)
SplitFrames ==
    /\ splitPaneResumes
    /\ commitFrames(1)
    /\ commitSizing
    /\ UNCHANGED <<rafs, burst, emitted, written>>

FramesStep ==
    \/ splitCount = 0 /\ SplitStart("horizontal", "after")
    \/ SplitFrames
    \/ \E p \in PaneIds : ContainerResize(p)
    \/ \E p \in PaneIds : DebounceFires(p)
    \/ LayoutChangeFires
    \/ \E p \in PaneIds : InitialTimeoutFires(p)
    \/ \E p \in PaneIds, a \in Attempts : RetryFires(p, a)
    \/ \E grids \in FrameGrids :
          /\ \A p \in PaneIds : \A c \in attemptsMeasuring(p) :
                c.attempt >= MaxUnsized => grids[p] = SettledGrid
          /\ Len(Leaves(layout)) > 1 =>
                \A p \in PaneIds : grids[p] = SettledGrid
          /\ AnimationFrame(grids)

FramesSessionStep ==
    \/ OnTerminalCreate
    \/ OnTerminalGetCwd
    \/ OnTerminalResize

NextFrames == FramesStep \/ FramesSessionStep

SpecFrames == Init /\ [][NextFrames]_vars

-----------------------------------------------------------------------------
(* Properties *)

PaneCount(node) == Len(Leaves(node))

(* the messages a step appends to the renderer -> main channel *)
NewToMain ==
    IF Len(toMain') > Len(toMain)
    THEN SubSeq(toMain', Len(toMain) + 1, Len(toMain'))
    ELSE <<>>

(* the step takes a message of this type off the main -> renderer channel *)
Takes(type) ==
    /\ toRenderer # <<>>
    /\ Head(toRenderer).type = type
    /\ toRenderer' = Tail(toRenderer)

(* C1: after any sequence of splits, closes and process exits the layout
   tree holds at least one pane, and a closePane aimed at the only pane of
   the tree leaves the tree as it is. *)
C1_LastPaneProtected ==
    /\ [](PaneCount(layout) >= 1)
    /\ [][\A p \in PaneIdsOf(layout) :
            (PaneCount(layout) = 1 /\ ClosePane(p)) => layout' = layout]_vars

(* a pane was split off and the first pane closed: the tree is down to its
   only remaining pane, and closePane is refused for it *)
C1_Witness ==
    /\ PaneCount(layout) = 1
    /\ Leaves(layout)[1].paneId # FirstPane
    /\ ~closePaneAccepts

(* C9: a split whose target is in the tree adds exactly one pane node, and
   the pane nodes that were in the tree are all still there, in order. *)
C9_SplitAddsOnePane ==
    [][(Takes("cwd-reply") /\ HasPane(layout, Head(toRenderer).k.target)) =>
          /\ PaneCount(layout') = PaneCount(layout) + 1
          /\ \E j \in 1..(PaneCount(layout) + 1) :
                /\ Leaves(layout')[j].paneId = Head(toRenderer).k.newPaneId
                /\ Leaves(layout) = SubSeq(Leaves(layout'), 1, j - 1)
                                    \o SubSeq(Leaves(layout'), j + 1,
                                              PaneCount(layout'))]_vars

(* both splits were applied to a pane of the tree *)
C9_Witness == PaneCount(layout) = 3 /\ Len(terminals) = 3

(* C7: an accepted closePane(id) removes the pane node and asks the main
   process to close the session of id. *)
C7_ClosePaneClosesSession ==
    [][\A p \in PaneIdsOf(layout) :
          ClosePane(p) =>
             /\ ~HasPane(layout', p)
             /\ \E i \in 1..Len(NewToMain) : NewToMain[i] = closeTerminal(p)]_vars


(* the step is the exit callback of process pid *)
ExitDelivered(pid) == procs[pid].state = "dead" /\ procs'[pid].state = "exited"

(* C2: when the exit of a process is delivered while its id is in
   closingTerminals, no terminal-exit notification is sent. *)
C2_ExpectedExitIsSilent ==
    [][\A pid \in DOMAIN procs :
          (ExitDelivered(pid) /\ procs[pid].id \in closingTerminals) =>
             toRenderer' = toRenderer]_vars

(* the exit of a session closed by the user was delivered and swallowed *)
C2_Witness ==
    /\ lastCall.op = "exit-expected"
    /\ \E pid \in DOMAIN procs :
          /\ procs[pid].id = lastCall.id
          /\ procs[pid].killed /\ procs[pid].state = "exited"
          /\ procs[pid].notes = 0

(* C3: when the exit of the live process of an id is delivered while the id
   is not in closingTerminals, the id leaves the live table and exactly one
   terminal-exit notification for it is sent to the window; no process is
   ever notified twice; a later input for the id changes nothing. *)
C3_UnsolicitedExit ==
    /\ [][\A pid \in DOMAIN procs :
            (ExitDelivered(pid) /\ procs[pid].id \notin closingTerminals
                                /\ mainWindow) =>
               /\ procs[pid].id \notin DOMAIN ptyProcesses'
               /\ toRenderer' = Append(toRenderer, TerminalExit(procs[pid].id))]_vars
    /\ [](\A pid \in DOMAIN procs : procs[pid].notes <= 1)
    /\ [][lastCall'.op = "input-noop" =>
            UNCHANGED <<procs, ptyProcesses, closingTerminals, toRenderer>>]_vars

(* a session exited on its own, its exit was notified once, and an input
   for its id arrived afterwards *)
C3_Witness ==
    /\ lastCall.op = "input-noop"
    /\ lastCall.id \notin DOMAIN ptyProcesses
    /\ \E pid \in DOMAIN procs :
          /\ procs[pid].id = lastCall.id
          /\ ~procs[pid].killed /\ procs[pid].state = "exited"
          /\ procs[pid].notes = 1
    /\ \E i \in 1..Len(toRenderer) : toRenderer[i] = TerminalExit(lastCall.id)

(* C4: a create for an id that is live spawns no process and leaves the
   live table as it is. *)
C4_CreateIsIdempotent ==
    [][lastCall'.op = "create-existing" =>
          /\ procs' = procs
          /\ ptyProcesses' = ptyProcesses]_vars

(* a second create arrived for an id whose session is live *)
C4_Witness ==
    /\ lastCall.op = "create-existing"
    /\ lastCall.id \in DOMAIN ptyProcesses
    /\ Cardinality({pid \in DOMAIN procs : procs[pid].id = lastCall.id}) = 1

(* C8: a close of a live id puts the id in closingTerminals, terminates its
   process and takes the id out of the live table in one step; an input or a
   resize for an id that is not in the live table reaches no process. *)
C8_CloseSupersedes ==
    /\ [][lastCall'.op = "close" =>
            /\ lastCall'.id \in DOMAIN ptyProcesses
            /\ lastCall'.id \in closingTerminals'
            /\ lastCall'.id \notin DOMAIN ptyProcesses'
            /\ procs'[ptyProcesses[lastCall'.id]].state # "running"]_vars
    /\ [][lastCall'.op \in {"input-noop", "resize-noop"} =>
            /\ lastCall'.id \notin DOMAIN ptyProcesses
            /\ UNCHANGED <<procs, ptyProcesses, closingTerminals,
                           toRenderer>>]_vars

(* an input or a resize arrived for a closed id before the exit callback of
   its process *)
C8_Witness ==
    /\ lastCall.op \in {"input-noop", "resize-noop"}
    /\ lastCall.id \in closingTerminals
    /\ \E pid \in DOMAIN procs :
          /\ procs[pid].id = lastCall.id
          /\ procs[pid].killed /\ procs[pid].state = "dead"


(* the step appends an assistant command line to the renderer -> main
   channel *)
SendsCommand ==
    \E i \in 1..Len(NewToMain) :
        NewToMain[i].type = "terminal-input" /\ NewToMain[i].data.nl

(* the step hands an assistant command line to the terminal-input handler *)
DeliversCommand ==
    /\ Receives("terminal-input")
    /\ Head(toMain).data.nl
    /\ toMain' = Tail(toMain)

(* C5: a command line of the assistant is sent to a terminal only by a step
   taken while that very command is shown for review with its Execute
   button, and that step ends the review; the arrival of a translation
   result sends nothing; a process reads a command line only from such a
   message. *)
C5_NoCommandWithoutApproval ==
    /\ [][SendsCommand =>
            /\ ReviewShown
            /\ \A i \in 1..Len(NewToMain) :
                  NewToMain[i].data = CommandLine(pendingCommand)
            /\ pendingCommand' = Null]_vars
    /\ [][(isProcessing /\ ~isProcessing') => toMain' = toMain]_vars
    /\ [][\A pid \in DOMAIN procs :
            procs'[pid].inputs # procs[pid].inputs =>
               /\ Receives("terminal-input")
               /\ procs'[pid].inputs =
                     procs[pid].inputs \cup {Head(toMain).data}]_vars

(* a session has read a command line, after its review *)
C5_Witness ==
    /\ \E pid \in DOMAIN procs : \E d \in procs[pid].inputs : d.nl
    /\ pendingCommand = Null

(* C6 as stated: an approved command is written to exactly one session,
   that of the active pane. *)
C6_WrittenToExactlyOneSession ==
    [][DeliversCommand =>
          /\ Live(Head(toMain).id)
          /\ \A pid \in DOMAIN procs :
                procs'[pid] # procs[pid] => ptyProcesses[Head(toMain).id] = pid]_vars

(* C6 as amended: an approved command is sent as one message addressed to
   the pane that is active at the moment of approval; it is written to the
   session of that id if the id is live, and to no other session. *)
C6_SentToActivePaneOnly ==
    /\ [][SendsCommand =>
            NewToMain = <<sendTerminalInput(activePaneId,
                                            CommandLine(pendingCommand))>>]_vars
    /\ [][DeliversCommand =>
            \A pid \in DOMAIN procs :
               procs'[pid] # procs[pid] =>
                  /\ Head(toMain).id \in DOMAIN ptyProcesses
                  /\ ptyProcesses[Head(toMain).id] = pid]_vars

(* two sessions are running; one has read an approved command, the other
   has read nothing *)
C6_Witness ==
    \E p1, p2 \in DOMAIN procs :
       /\ p1 # p2
       /\ procs[p1].state = "running" /\ procs[p2].state = "running"
       /\ \E d \in procs[p1].inputs : d.nl
       /\ procs[p2].inputs = {}

(* C10: the session of a pane made by a split is spawned in the directory
   its pane node carries, HOME when the node carries none; the node carries
   the directory the probe returned for the split; the probe is made for the
   pane that was active when the split was invoked and returns the directory
   of that pane's running process, or HOME. *)
C10_SplitInheritsCwd ==
    /\ [][(Receives("terminal-create") /\ toMain' = Tail(toMain)
               /\ Head(toMain).id \notin DOMAIN ptyProcesses) =>
            LET m == Head(toMain)
            IN /\ Len(procs') = Len(procs) + 1
               /\ procs'[Len(procs')].id = m.id
               /\ procs'[Len(procs')].cwd =
                     IF m.cwd = Undefined THEN Home ELSE m.cwd
               /\ \E i \in 1..PaneCount(layout) :
                     /\ Leaves(layout)[i].paneId = m.id
                     /\ Leaves(layout)[i].cwd = m.cwd]_vars
    /\ [][(Takes("cwd-reply") /\ HasPane(layout, Head(toRenderer).k.target)) =>
            \E i \in 1..PaneCount(layout') :
               /\ Leaves(layout')[i].paneId = Head(toRenderer).k.newPaneId
               /\ Leaves(layout')[i].cwd = Head(toRenderer).cwd
               /\ Leaves(layout')[i].cwd # Undefined]_vars
    /\ [][(Receives("terminal-get-cwd") /\ toMain' = Tail(toMain)) =>
            /\ Len(toRenderer') = Len(toRenderer) + 1
            /\ LET id == Head(toMain).id
                   reply == toRenderer'[Len(toRenderer')]
               IN /\ reply.k = Head(toMain).k
                  /\ \/ reply.cwd = Home
                     \/ /\ id \in DOMAIN ptyProcesses
                        /\ procs[ptyProcesses[id]].state = "running"
                        /\ reply.cwd = procs[ptyProcesses[id]].dir]_vars
    /\ [][Len(NewToMain) > 0 =>
            \A i \in 1..Len(NewToMain) :
               NewToMain[i].type = "terminal-get-cwd" =>
                  /\ NewToMain[i].id = activePaneId
                  /\ NewToMain[i].k.target = activePaneId]_vars

(* the session of a split pane runs in the directory its source pane's shell
   had changed to *)
C10_Witness ==
    \E pid \in DOMAIN procs :
       /\ procs[pid].id # FirstPane
       /\ procs[pid].cwd = "work"
       /\ procs[pid].state = "running"


(* the root Group holding exactly these children *)
RootOf(children) == GroupNode(RootId, "horizontal", children)

(* the pane node of the first pane *)
P1 == InitialLayout.children[1]

(* C11: from the single pane p1, a horizontal split after p1 yields the
   root horizontal Group with children [p1, p2]; removing p1 from that tree,
   with p1 and p2 the tracked terminals, leaves the root Group holding only
   p2, and closePane is then refused. *)
C11_SplitCloseCloseScenario ==
    /\ [][(/\ layout = InitialLayout
           /\ Takes("cwd-reply")
           /\ Head(toRenderer).k.target = FirstPane
           /\ Head(toRenderer).k.direction = "horizontal"
           /\ Head(toRenderer).k.position = "after") =>
            LET m == Head(toRenderer) IN
            layout' = RootOf(<<P1, PaneNode(<<"node", m.k.newPaneId>>,
                                            m.k.newPaneId, m.cwd,
                                            m.k.paneNumber)>>)]_vars
    /\ [][(/\ layout.id = RootId
           /\ Len(layout.children) = 2
           /\ layout.children[1] = P1
           /\ layout.children[2].type = "pane"
           /\ terminals = <<FirstPane, layout.children[2].paneId>>
           /\ ClosePane(FirstPane)) =>
            /\ layout' = RootOf(<<layout.children[2]>>)
            /\ terminals' = <<layout.children[2].paneId>>
            /\ ~closePaneAccepts']_vars
    /\ [](\A p \in PaneIdsOf(layout) :
            (PaneCount(layout) = 1 /\ terminals = <<p>>) =>
               ~ENABLED ClosePane(p))

(* the scenario has run to its end: one split was made, p1 was closed, the
   root Group holds only p2 *)
C11_Witness ==
    /\ splitCount = 1
    /\ layout.id = RootId
    /\ layout.type = "group"
    /\ Len(layout.children) = 1
    /\ layout.children[1].type = "pane"
    /\ layout.children[1].paneId # FirstPane
    /\ terminals = <<layout.children[1].paneId>>
    /\ PaneIdsOf(layout) \subseteq DOMAIN ptyProcesses

(* C12: a resize call with cols <= 0 or rows <= 0 never reaches
   ptyProcess.resize and changes nothing, whether its id is live or not. *)
C12_InvalidGeometryDropped ==
    /\ [](\A id \in CallIds, c \in CallCols, r \in CallRows :
            (c <= 0 \/ r <= 0) => ~terminalResizeCalls(id, c, r))
    /\ [][\A id \in CallIds, c \in CallCols, r \in CallRows :
            (CallResize(id, c, r) /\ (c <= 0 \/ r <= 0)) =>
               UNCHANGED <<procs, ptyProcesses, closingTerminals,
                           toRenderer>>]_vars

(* the last call was a resize for a live id whose running process still has
   the geometry it was spawned with: the call carried a non-positive
   dimension *)
C12_Witness ==
    /\ lastCall.op = "resize"
    /\ lastCall.id \in DOMAIN ptyProcesses
    /\ LET p == procs[ptyProcesses[lastCall.id]]
       IN p.state = "running" /\ p.cols = DefaultCols /\ p.rows = DefaultRows

(* C13: when a burst of geometry-change triggers that all arrived before any
   timer fired has settled, no pane has received more than one resize call
   (exactly one for a pane the burst reached). *)
C13_OneResizePerBurst ==
    [](Settled /\ burst.phase \in {"open", "fired"} =>
          \A p \in PaneIds : burst.calls[p] <= 1)

(* C14: no pane ever has more than one measure-and-resize in flight. *)
C14_OneMeasureInFlight ==
    [](\A p \in PaneIds : rafs[p] <= 1)

(* the id has had a session *)
HadSession(id) == \E pid \in DOMAIN procs : procs[pid].id = id

(* C15: an id that has had a session and is no longer in the live table
   never enters the live table again. *)
C15_NoResurrection ==
    [][\A id \in PaneIds :
          (HadSession(id) /\ id \notin DOMAIN ptyProcesses) =>
             id \notin DOMAIN ptyProcesses']_vars

RECURSIVE GroupsHaveTwo(_)
(* every Group below this node, the node itself included, has at least two
   children *)
GroupsHaveTwo(node) ==
    IF node.type # "group" THEN TRUE
    ELSE /\ Len(node.children) >= 2
         /\ \A i \in 1..Len(node.children) : GroupsHaveTwo(node.children[i])

(* C16: every Group other than the root has at least two children. *)
C16_NonRootGroupsHaveTwoChildren ==
    [](/\ layout.type = "group"
       /\ layout.id = RootId
       /\ \A i \in 1..Len(layout.children) : GroupsHaveTwo(layout.children[i]))

(* a horizontal Group is the only child of the horizontal root: it was
   hoisted into the place of a vertical Group that was down to one child *)
C16_Witness ==
    /\ Len(layout.children) = 1
    /\ layout.children[1].type = "group"
    /\ layout.children[1].direction = "horizontal"
    /\ Len(layout.children[1].children) = 2

(* C17: no two panes of the tree carry the same display number. *)
C17_DisplayNumbersUnique ==
    [](\A i, j \in 1..PaneCount(layout) :
          i # j => Leaves(layout)[i].paneNumber # Leaves(layout)[j].paneNumber)

RECURSIVE NodeAt(_, _)
(* the node a path of child indexes leads to *)
NodeAt(root, path) ==
    IF path = <<>> THEN root
    ELSE NodeAt(root.children[Head(path)], Tail(path))

RECURSIVE ReplaceAt(_, _, _)
(* the tree with the node at the path replaced, everything else in place *)
ReplaceAt(root, path, node) ==
    IF path = <<>> THEN node
    ELSE [root EXCEPT !.children[Head(path)] =
             ReplaceAt(root.children[Head(path)], Tail(path), node)]

(* C18: a split whose target is in the tree changes only the children of
   the target's parent: when the parent has the requested direction the new
   pane becomes a sibling at the target's index (before) or index + 1
   (after); otherwise the target is replaced by a new Group of the requested
   direction holding [target, new] (after) or [new, target] (before). *)
C18_SplitPlacement ==
    [][(Takes("cwd-reply") /\ HasPane(layout, Head(toRenderer).k.target)) =>
          LET m == Head(toRenderer)
              k == m.k
              new == PaneNode(<<"node", k.newPaneId>>, k.newPaneId, m.cwd,
                              k.paneNumber)
              path == findNodeByPaneId(layout, k.target)
              parentPath == SubSeq(path, 1, Len(path) - 1)
              index == path[Len(path)]
              parent == NodeAt(layout, parentPath)
              target == parent.children[index]
              siblings == parent.children
          IN /\ target.type = "pane" /\ target.paneId = k.target
             /\ layout' = ReplaceAt(layout, parentPath,
                   IF parent.direction = k.direction
                   THEN [parent EXCEPT !.children =
                           IF k.position = "after"
                           THEN SubSeq(siblings, 1, index) \o <<new>>
                                \o SubSeq(siblings, index + 1, Len(siblings))
                           ELSE SubSeq(siblings, 1, index - 1) \o <<new>>
                                \o SubSeq(siblings, index, Len(siblings))]
                   ELSE [parent EXCEPT !.children[index] =
                           GroupNode(<<"group", clock'>>, k.direction,
                                     IF k.position = "after"
                                     THEN <<target, new>>
                                     ELSE <<new, target>>)])]_vars

(* a pane was split off before the first pane in the other direction, and a
   third pane was then added to that Group as a sibling *)
C18_Witness ==
    /\ Len(layout.children) = 1
    /\ layout.children[1].type = "group"
    /\ layout.children[1].direction = "vertical"
    /\ Len(layout.children[1].children) = 3
    /\ layout.children[1].children[3].paneId = FirstPane

(* C19: a split whose target pane is not in the tree when it is applied is
   a no-op: the tree is unchanged, no new pane id becomes tracked, and the
   active-pane pointer does not move to a pane absent from the tree. *)
C19_SplitOfMissingTargetIsNoOp ==
    [][(Takes("cwd-reply") /\ ~HasPane(layout, Head(toRenderer).k.target)) =>
          /\ layout' = layout
          /\ terminals' = terminals
          /\ (activePaneId' # activePaneId => HasPane(layout', activePaneId'))
      ]_vars

(* C20: when closePane removes the pane that is active, the active-pane
   pointer is reassigned to a pane that remains in the tree; when it removes
   a pane that is not active, the pointer is unchanged. *)
C20_ActiveReassignedOnClose ==
    [][\A p \in PaneIds :
          (ClosePane(p) /\ HasPane(layout, p) /\ ~HasPane(layout', p)) =>
             IF p = activePaneId
             THEN activePaneId' # p /\ HasPane(layout', activePaneId')
             ELSE activePaneId' = activePaneId]_vars

(* some pane of the tree carries the display number *)
Carried(n) == \E i \in 1..PaneCount(layout) : Leaves(layout)[i].paneNumber = n

(* C21: switching focus, by a click on a pane or by Cmd+digit, changes only
   the active-pane pointer: the tree, the tracked pane list, the next display
   number and the table of live sessions are unchanged, the new active pane
   is the one clicked or one carrying the number, and switching to a number
   no pane carries changes nothing. *)
C21_SwitchFocusFrame ==
    [][/\ \A p \in PaneIds :
            FocusPane(p) =>
               /\ activePaneId' = p
               /\ UNCHANGED <<layout, terminals, nextPaneNumber, mainVars>>
       /\ \A n \in 1..MaxDigit :
            FocusNumber(n) =>
               /\ UNCHANGED <<layout, terminals, nextPaneNumber, mainVars>>
               /\ IF Carried(n)
                  THEN \E i \in 1..PaneCount(layout) :
                          /\ Leaves(layout)[i].paneNumber = n
                          /\ Leaves(layout)[i].paneId = activePaneId'
                  ELSE UNCHANGED vars
      ]_vars

(* the focus is back on the first pane while the pane split off it is still
   in the tree *)
C21_Witness ==
    /\ PaneCount(layout) = 2
    /\ splitCount = 1
    /\ Len(terminals) = 2
    /\ terminals[2] # FirstPane
    /\ activePaneId = FirstPane

(* no initial sizing is under way for any pane *)
SizingIdle == \A p \in PaneIds : sizing[p] = NoSizing

(* C22: when the measured grid has no columns or no rows, the initial sizing
   retries at most MaxRetries times after its first attempt; a measurement
   without columns or rows issues no resize call, and after the last retry
   the chain stops with nothing pending in its place; every initial sizing
   comes to an end. *)
C22_BoundedRetries ==
    /\ [](\A p \in PaneIds : \A c \in sizing[p].chains :
             c.attempt <= MaxRetries)
    /\ [][\A p \in PaneIds, a \in Attempts, grid \in ZeroGrids :
             AttemptFrame(p, a, grid) =>
                /\ toMain' = toMain
                /\ a >= MaxRetries =>
                     /\ sizing'[p].chains = sizing[p].chains \ {Chain("frame", a)}
                     /\ sizing'[p].timer = sizing[p].timer
         ]_vars
    /\ <>[]SizingIdle

(* the fifth retry of a pane is measuring *)
C22_Witness ==
    \E p \in PaneIds : Chain("frame", MaxRetries) \in sizing[p].chains

(* the session of the id ended on its own and the renderer was notified *)
ExitedUnsolicited(id) ==
    /\ ~Live(id)
    /\ \E pid \in DOMAIN procs :
          /\ procs[pid].id = id
          /\ procs[pid].state = "exited"
          /\ ~procs[pid].killed
          /\ procs[pid].notes > 0

(* C23: after an unsolicited exit the pane stays in the tree with its dead
   session id until the user removes it: a pane leaves the tree only by a
   closePane on it or by a confirmed prompt for it; a declined prompt leaves
   the tree, the tracked pane list and the active pane unchanged; the id
   stays out of the live table, and a write or a resize against it changes
   nothing in the main process and sends nothing to the renderer. *)
C23_DeadPanePersists ==
    [][/\ \A p \in PaneIds :
            (HasPane(layout, p) /\ ~HasPane(layout', p)) =>
               \/ ClosePane(p)
               \/ Takes("terminal-exit") /\ Head(toRenderer).id = p
                  /\ OnTerminalExit(TRUE)
       /\ OnTerminalExit(FALSE) =>
            UNCHANGED <<layout, terminals, activePaneId>>
       /\ \A p \in PaneIds : ExitedUnsolicited(p) => ~Live(p)'
       /\ (/\ toMain # <<>>
           /\ Head(toMain).type \in {"terminal-input", "terminal-resize"}
           /\ ExitedUnsolicited(Head(toMain).id)
           /\ toMain' = Tail(toMain)) =>
            UNCHANGED <<mainVars, toRenderer>>
      ]_vars

(* the prompt for an exited shell was declined, its pane is still in the
   tree, and a keystroke typed into it is about to reach the main process *)
C23_Witness ==
    /\ toRenderer = <<>>
    /\ toMain # <<>>
    /\ Head(toMain).type = "terminal-input"
    /\ ExitedUnsolicited(Head(toMain).id)
    /\ HasPane(layout, Head(toMain).id)

(* C24: an id is in closingTerminals only between a close of its live
   session and the exit callback of that session: only a close of a live id
   adds an id, a close of an id that is not live adds nothing, the exit
   callback of a process takes its id out, and an id that is in the set has a
   terminated process whose exit callback has not run yet, so the set is
   empty once every exit callback has run. *)
C24_PendingCloseLifetime ==
    /\ [](\A id \in closingTerminals :
             \E pid \in DOMAIN procs :
                procs[pid].id = id /\ procs[pid].state = "dead")
    /\ [][/\ \A id \in closingTerminals' \ closingTerminals :
               lastCall'.op = "close" /\ lastCall'.id = id /\ Live(id)
          /\ lastCall'.op = "close-noop" =>
               closingTerminals' = closingTerminals
          /\ \A pid \in DOMAIN procs :
               ExitDelivered(pid) => procs[pid].id \notin closingTerminals'
         ]_vars

(* a session was closed, its exit callback has run and closingTerminals is
   empty again *)
C24_Witness ==
    /\ lastCall.op = "exit-expected"
    /\ closingTerminals = {}
    /\ \A pid \in DOMAIN procs : procs[pid].state # "dead"
    /\ \E pid \in DOMAIN procs : procs[pid].killed

(* C25: when the spawn of create(id) fails, a terminal-exit notification
   for id is sent and id is not in the live table.  No process exists after
   a spawn that threw, so no later exit callback can send the notification:
   it is sent by the failing create or never. *)
C25_SpawnFailureNotified ==
    [][lastCall'.op = "create-throws" =>
          /\ lastCall'.id \notin DOMAIN ptyProcesses'
          /\ toRenderer' = Append(toRenderer, TerminalExit(lastCall'.id))
      ]_vars

(* the commands a failed translation leaves for review: they only print a
   message *)
Informational ==
    {ConnectError} \cup {parseCommand(r) : r \in FailureResponses}

(* the step is the end of a translation request that failed *)
TranslationFails ==
    \/ AIFailure
    \/ \E r \in FailureResponses : AIResponse(r)

(* C26: a translation request that fails writes to no session: it sends
   nothing to the main process, clears the processing flag and leaves an
   informational command pending, shown for review whenever the assistant
   bar is open; such a command reaches a terminal only by the Execute button
   of its review. *)
C26_FailedTranslationIsReviewed ==
    /\ [][TranslationFails =>
            /\ toMain' = toMain
            /\ procs' = procs
            /\ ~isProcessing'
            /\ pendingCommand' \in Informational
            /\ Truthy(pendingCommand')
            /\ showAiBar => ReviewShown']_vars
    /\ [][\A i \in 1..Len(NewToMain) :
             (/\ NewToMain[i].type = "terminal-input"
              /\ NewToMain[i].data.text \in Informational) =>
                /\ ReviewShown
                /\ NewToMain[i].data = CommandLine(pendingCommand)
                /\ ExecuteCommand]_vars

(* the request was rejected and its message is under review *)
C26_Witness ==
    /\ pendingCommand = ConnectError
    /\ ReviewShown

(* C27: terminal-get-cwd always answers with a path: the directory of the
   process when the id is live and the probe succeeds, the home directory
   when the id is not live, when the probe fails or finds nothing, and on a
   platform without a probe; the answer is never left undefined, and the
   call changes nothing in the main process. *)
C27_CwdAlwaysAPath ==
    [][lastCall'.op \in {"cwd-probed", "cwd-fallback"} =>
          LET id == lastCall'.id
              answer == IF lastCall'.op = "cwd-probed"
                        THEN procs[ptyProcesses[id]].dir ELSE Home
          IN /\ answer \in Dirs \cup {Home}
             /\ toRenderer' = Append(toRenderer, CwdReply(answer, NoK))
             /\ UNCHANGED mainVars
      ]_vars

(* the probe of a session that had changed directory fell back to the home
   directory *)
C27_Witness ==
    /\ lastCall.op = "cwd-fallback"
    /\ Live(lastCall.id)
    /\ procs[ptyProcesses[lastCall.id]].dir # Home
    /\ toRenderer # <<>>
    /\ toRenderer[Len(toRenderer)] = CwdReply(Home, NoK)

(* C28: each session id is referenced by at most one pane node of the tree,
   also when the ids of two splits are read from the clock at the same
   instant. *)
C28_OnePanePerSessionId ==
    [](\A i, j \in 1..PaneCount(layout) :
          i # j => Leaves(layout)[i].paneId # Leaves(layout)[j].paneId)

(* C29: the root of the layout tree is always the root Group; no close and
   no removal after an exit replaces it, hoists its only child into its
   place or deletes it. *)
C29_RootIsRootGroup ==
    [](/\ layout.type = "group"
       /\ layout.id = RootId
       /\ Len(layout.children) >= 1)

(* only the root Group and one pane are left after a close or a removal *)
C29_Witness ==
    /\ layout.type = "group" /\ layout.id = RootId
    /\ Len(layout.children) = 1
    /\ layout.children[1].type = "pane"
    /\ splitCount > 0
    /\ Len(terminals) <= 1
    /\ layout.children[1].paneId # FirstPane

(* the leaves of the tree whose pane id is not the one given *)
Survivors(leaves, paneId) ==
    LET keep == {i \in 1..Len(leaves) : leaves[i].paneId # paneId}
        RECURSIVE pick(_)
        pick(i) == IF i > Len(leaves) THEN <<>>
                   ELSE IF i \in keep THEN <<leaves[i]>> \o pick(i + 1)
                   ELSE pick(i + 1)
    IN pick(1)

(* C30: closing or removing a pane leaves the surviving panes with their
   display numbers and the next number to assign as it was, and the number
   of a pane that was removed is never given to a pane added later. *)
C30_NumbersNotReclaimed ==
    /\ [][\A p \in PaneIds :
            (\/ ClosePane(p)
             \/ Takes("terminal-exit") /\ Head(toRenderer).id = p
                /\ OnTerminalExit(TRUE)) =>
               /\ nextPaneNumber' = nextPaneNumber
               /\ \/ layout' = layout
                  \/ Leaves(layout') = Survivors(Leaves(layout), p)]_vars
    /\ [][(Takes("cwd-reply") /\ layout' # layout) =>
            Head(toRenderer).k.paneNumber \notin retiredNumbers]_vars

(* the resize calls a step issues for pane p *)
ResizeCallsFor(p) ==
    {i \in 1..Len(NewToMain) :
        NewToMain[i].type = "terminal-resize" /\ NewToMain[i].id = p}

(* C31: every resize call of a pane is issued at a rendering-frame boundary
   by a callback that saw an earlier boundary after it was requested, and
   carries the grid measured at the boundary of the call; a callback is
   requested when the debounce timer fires, never by the container resize
   that starts the timer, and reaches its second boundary only through its
   first. *)
C31_TwoFramesBeforeResize ==
    /\ [][\A p \in PaneIds :
            ResizeCallsFor(p) # {} =>
               \E grids \in FrameGrids :
                  /\ AnimationFrame(grids)
                  /\ Cardinality(ResizeCallsFor(p))
                        <= stage[p].second
                           + Cardinality({c \in sizing[p].chains :
                                            c.phase = "second"})
                  /\ \A i \in ResizeCallsFor(p) :
                        /\ NewToMain[i].cols = grids[p][1]
                        /\ NewToMain[i].rows = grids[p][2]]_vars
    /\ [][\A p \in PaneIds :
            (\/ stage'[p].second > stage[p].second
             \/ \E a \in Attempts :
                   /\ Chain("second", a) \in sizing'[p].chains
                   /\ Chain("second", a) \notin sizing[p].chains) =>
               /\ \E grids \in FrameGrids : AnimationFrame(grids)
               /\ stage'[p].second = stage[p].first
               /\ \A a \in Attempts :
                     Chain("second", a) \in sizing'[p].chains =>
                        Chain("frame", a) \in sizing[p].chains]_vars
    /\ [][\A p \in PaneIds :
            ContainerResize(p) =>
               /\ stage' = stage
               /\ toMain' = toMain
               /\ p \in resizeTimeout']_vars

(* a pane issues a resize call at the second boundary after its debounce
   timer fired *)
C31_Witness ==
    /\ \E i \in 1..Len(toMain) :
          /\ toMain[i].type = "terminal-resize"
          /\ toMain[i].id # FirstPane
          /\ toMain[i].cols = SettledGrid[1]
          /\ stage[toMain[i].id] = NoFrames
          /\ sizing[toMain[i].id] = NoSizing
    /\ resizeTimeout = {}
    /\ burst.phase # "idle"

(* C32: a chunk produced by session id is written to no surface but that of
   id, and the chunks of a session are written to its surface in the order
   the processes of the session produced them. *)
C32_OutputRoutedInOrder ==
    [](\A p \in PaneIds :
          /\ \A i \in 1..Len(written[p]) :
                /\ written[p][i][1] = p
                /\ written[p][i][2] <= emitted[p]
          /\ \A i, j \in 1..Len(written[p]) :
                i < j => written[p][i][2] <= written[p][j][2])

(* two panes are mounted and the surface of the second shows the two chunks
   its shell produced *)
C32_Witness ==
    \E p \in PaneIdsOf(layout) \ {FirstPane} :
       /\ written[p] = <<Chunk(p, 1), Chunk(p, 2)>>
       /\ written[FirstPane] # <<>>

(* C33: the surfaces are kept by session id: a step asks the main process
   to create a session only for an id that had no surface, a pane that
   stays in the tree keeps its surface, and the surface of a pane that
   closePane takes out of the tree is gone from the store. *)
C33_SurfacesFollowPanes ==
    /\ [][\A i \in 1..Len(NewToMain) :
            NewToMain[i].type = "terminal-create" =>
               /\ NewToMain[i].id \notin globalTerminals
               /\ NewToMain[i].id \in globalTerminals']_vars
    /\ [](PaneIdsOf(layout) \subseteq globalTerminals)
    /\ [][\A p \in PaneIds :
            ClosePane(p) /\ HasPane(layout, p) /\ ~HasPane(layout', p) =>
               p \notin globalTerminals']_vars

(* C34: when the resize of the process of a live session fails, the error
   stays inside the handler, and the live table and the set of ids being
   closed are what they were. *)
C34_ResizeFailureContained ==
    [][lastCall' # lastCall /\ lastCall'.op \in {"resize-failed", "resize-threw"} =>
          /\ Live(lastCall'.id)
          /\ lastCall'.op = "resize-failed"
          /\ ptyProcesses' = ptyProcesses
          /\ closingTerminals' = closingTerminals
          /\ procs' = procs]_vars

(* a resize failed for a session that is live and stays so, while another
   id is being closed *)
C34_Witness ==
    /\ lastCall.op = "resize-failed"
    /\ Live(lastCall.id)
    /\ closingTerminals # {}

(* a resize call for pane p with the settled grid is on its way *)
ResizeUnderWay(p) ==
    \E i \in 1..Len(toMain) :
       toMain[i] = resizeTerminal(p, SettledGrid[1], SettledGrid[2])

(* C35: while the timer of an accepted split or close is pending, or a refit
   it started awaits its frames, every mounted pane for which no resize call
   is under way is later sent one that carries its settled grid, unless the
   pane leaves the tree first. *)
C35_RefitAfterLayoutChange ==
    \A p \in PaneIds :
       (/\ layoutTimeouts > 0 \/ rafs[p] > 0
        /\ p \in PaneIdsOf(layout)
        /\ ~ResizeUnderWay(p))
          ~> (p \notin PaneIdsOf(layout) \/ ResizeUnderWay(p))

(* after a close the pane that is left is sent its settled grid once the
   timer of the close has fired and nothing else is pending *)
C35_Witness ==
    /\ PaneCount(layout) = 1
    /\ globalTerminals # {FirstPane}
    /\ layoutTimeouts = 0
    /\ \A p \in PaneIds : rafs[p] = 0
    /\ \E p \in PaneIdsOf(layout) : ResizeUnderWay(p)

(* C36: the exit callback of a process touches the registration of no other
   process: when the session of its id has been created again, the callback
   of the earlier process leaves the new process in the live table, and
   leaves the id among those being closed when the new process was closed
   and has not reported its exit. *)
C36_ExitCallbackOwnProcessOnly ==
    [][\A pid \in DOMAIN procs :
          procs[pid].state = "dead" /\ procs'[pid].state = "exited" =>
             LET id == procs[pid].id IN
             /\ Live(id) /\ ptyProcesses[id] # pid =>
                   /\ id \in DOMAIN ptyProcesses'
                   /\ ptyProcesses'[id] = ptyProcesses[id]
             /\ (/\ id \in closingTerminals
                 /\ \E q \in DOMAIN procs :
                       /\ q > pid
                       /\ procs[q].id = id
                       /\ procs[q].killed
                       /\ procs[q].state = "dead") =>
                   id \in closingTerminals']_vars

(* the ids of the tracked list *)
Tracked == {terminals[i] : i \in 1..Len(terminals)}

(* C37: the tracked list of terminal ids holds exactly the session ids of
   the panes of the layout tree, each once, after any splits, closes and
   removals that follow an exit; so the close of a pane that is not the
   active one is refused exactly when the tree holds one pane. *)
C37_TrackedListMatchesTree ==
    /\ [](/\ Tracked = PaneIdsOf(layout)
          /\ Len(terminals) = PaneCount(layout))
    /\ []((Len(terminals) > 1) <=> (PaneCount(layout) > 1))

(* C38: the active-pane pointer always names a pane of the layout tree, also
   after the active pane was removed because its shell exited, and after a
   split that resumes when its target pane is gone. *)
C38_ActivePaneInTree == [](HasPane(layout, activePaneId))

(* C39: when the window closes, every process of the live table is asked to
   terminate and the table is emptied, and the exit of a process terminated
   that way is never notified to a window, the next window included. *)
C39_WindowCloseIsSilent ==
    /\ [][mainWindow /\ ~mainWindow' =>
            /\ DOMAIN ptyProcesses' = {}
            /\ \A id \in DOMAIN ptyProcesses :
                  procs'[ptyProcesses[id]].state # "running"]_vars
    /\ [](\A pid \in DOMAIN procs :
            procs[pid].killed => procs[pid].notes = 0)

(* C40: Cancel and Escape leave no pending command, and the answer to a
   translation request that was in flight when Escape closed the assistant
   bar (the bar is closed while a request is in flight only after an Escape,
   since a request is submitted from the open bar) stores no pending
   command. *)
C40_DismissedStaysDismissed ==
    /\ [][Escape \/ CancelCommand => pendingCommand' = Null]_vars
    /\ [][isProcessing /\ ~showAiBar /\ ~isProcessing' =>
            pendingCommand' = Null]_vars

=============================================================================
